---- MODULE Spec2Model ----
(***************************************************************************)
(* A model of the talent-identification engine: the identity resolver     *)
(* (etl/entity_resolution.py), the orchestrator (main.py: the per-source  *)
(* and per-country normaliser, the source statistics, the momentum and    *)
(* the z-score) and the scoring function (etl/scoring.py).                *)
(*                                                                         *)
(* A Python dict is a function whose domain is its set of keys; a missing *)
(* key is a key outside the domain.  A Python str that the code inspects  *)
(* character by character (a name) is a sequence of one-character         *)
(* strings; a str that is only stored and compared (a source, a handle)   *)
(* is a string.                                                            *)
(***************************************************************************)
EXTENDS Integers, Sequences, FiniteSets, TLC

\* resolve_entities: the input consumed so far, as the caller sees it, the
\* resolved list, whether the loop is running or has raised, and for each
\* identity the place in the input of the record it is the same dict as,
\* 0 for a dict of its own
VARIABLES entities, resolved, rpc, alias

\* orchestrate: the annotated records, the ratings grouped by source, the
\* percentile of each rating of each source, the population of each
\* source, and the stage reached
VARIABLES combined_raw, ratings_by_src, percentile_map, total_in_src, npc

\* orchestrate: the percentile of each rating of each (source, country)
\* bucket, and the mean and the standard deviation of each source
VARIABLES geo_percentile_map, source_stats

\* orchestrate: the catalog file of the cache, the ratings of the previous
\* day read from it, the resolved identities (`entities` in main.py) and
\* their ranking
VARIABLES catalog, prev_ratings, identities, ranked_entities

\* interestingness_score: the profile it is given, what it returns and
\* where the caller stands
VARIABLES profile, scored, spc

\* codeforces.fetch_ratings: whether TI_SKIP_CACHE is set, the limit of the
\* calls, and the lists the calls have returned so far
VARIABLES skip_cache, limit, returned

resolverVars == <<entities, resolved, rpc, alias>>
normVars == <<combined_raw, ratings_by_src, percentile_map, total_in_src, npc>>
statVars == <<geo_percentile_map, source_stats>>
tailVars == <<catalog, prev_ratings, identities, ranked_entities>>
scoreVars == <<profile, scored, spc>>
fetchVars == <<skip_cache, limit, returned>>
vars == <<resolverVars, normVars, statVars, tailVars, scoreVars, fetchVars>>

----------------------------------------------------------------------------
(* Bounds of the model. *)

\* the longest input list resolve_entities is given
MaxRecords == 3

\* the largest number of fetched records orchestrate normalises
MaxRaw == 4

----------------------------------------------------------------------------
(* Python values. *)

\* Python's None
None == "<None>"

\* bool(v) for the values a source or a handle takes: None and "" are falsy
Truthy(v) == v # None /\ v # ""

\* `k in d`
HasKey(d, k) == k \in DOMAIN d

\* d.get(k, default)
Get(d, k, default) == IF k \in DOMAIN d THEN d[k] ELSE default

\* d[k] = v on a copy of d
Put(d, k, v) == [x \in DOMAIN d \cup {k} |-> IF x = k THEN v ELSE d[x]]

\* {}
EmptyDict == <<>>

Max(a, b) == IF a >= b THEN a ELSE b

\* no catalog file: cache.py reads it as {}
NoCatalog == [json |-> FALSE, object |-> <<>>]

----------------------------------------------------------------------------
(* Strings as character sequences. *)

\* the characters of the model's names, in code-point order
Alphabet == <<" ", "A", "B", "C", "D", "a", "b", "c", "d", "e">>

\* ord(c), up to an order-preserving renumbering
Ord(c) == CHOOSE i \in DOMAIN Alphabet : Alphabet[i] = c

\* c.lower() for one character
LowerChar(c) ==
    CASE c = "A" -> "a"
      [] c = "B" -> "b"
      [] c = "C" -> "c"
      [] c = "D" -> "d"
      [] OTHER -> c

\* s.lower()
Lower(s) == [i \in DOMAIN s |-> LowerChar(s[i])]

\* s.split(): the maximal runs of non-whitespace characters
RECURSIVE SplitFrom(_, _, _)
SplitFrom(s, i, cur) ==
    IF i > Len(s)
    THEN IF cur = <<>> THEN <<>> ELSE <<cur>>
    ELSE IF s[i] = " "
         THEN IF cur = <<>>
              THEN SplitFrom(s, i + 1, <<>>)
              ELSE <<cur>> \o SplitFrom(s, i + 1, <<>>)
         ELSE SplitFrom(s, i + 1, Append(cur, s[i]))

Split(s) == SplitFrom(s, 1, <<>>)

\* a < b for two strings (lexicographic by code point)
RECURSIVE StrLess(_, _)
StrLess(a, b) ==
    IF b = <<>> THEN FALSE
    ELSE IF a = <<>> THEN TRUE
    ELSE IF Head(a) # Head(b) THEN Ord(Head(a)) < Ord(Head(b))
    ELSE StrLess(Tail(a), Tail(b))

\* sorted(tokens)
RECURSIVE InsertToken(_, _)
InsertToken(t, toks) ==
    IF toks = <<>> THEN <<t>>
    ELSE IF StrLess(t, Head(toks)) THEN <<t>> \o toks
    ELSE <<Head(toks)>> \o InsertToken(t, Tail(toks))

RECURSIVE SortedTokens(_)
SortedTokens(toks) ==
    IF toks = <<>> THEN <<>>
    ELSE InsertToken(Head(toks), SortedTokens(Tail(toks)))

\* " ".join(tokens)
RECURSIVE Join(_)
Join(toks) ==
    IF toks = <<>> THEN <<>>
    ELSE IF Len(toks) = 1 THEN Head(toks)
    ELSE Head(toks) \o <<" ">> \o Join(Tail(toks))

\* One row of the longest-common-subsequence table: cell k of a row is kept
\* at index k + 1.
RECURSIVE LcsFill(_, _, _, _)
LcsFill(c, b, prev, row) ==
    IF Len(row) = Len(b) + 1 THEN row
    ELSE LET j == Len(row)
         IN  LcsFill(c, b, prev,
                     Append(row, IF c = b[j] THEN prev[j] + 1
                                 ELSE Max(prev[j + 1], row[j])))

RECURSIVE LcsRows(_, _, _)
LcsRows(a, b, prev) ==
    IF a = <<>> THEN prev[Len(b) + 1]
    ELSE LcsRows(Tail(a), b, LcsFill(Head(a), b, prev, <<0>>))

\* the length of a longest common subsequence of a and b
LcsLen(a, b) == LcsRows(a, b, [j \in 1..(Len(b) + 1) |-> 0])

----------------------------------------------------------------------------
(* etl/entity_resolution.py *)

\* the default of _is_duplicate's threshold parameter
Threshold == 88

\* " ".join(sorted(s.split())), the string fuzz.token_sort_ratio compares
TokenSorted(s) == Join(SortedTokens(Split(s)))

\* fuzz.token_sort_ratio(name1, name2) >= threshold.  The ratio is the
\* normalised Indel similarity of the two token-sorted strings,
\* 100 * 2 * lcs / (len1 + len2), and 100 for two empty strings; the
\* comparison is made here on integers.  No preprocessing is applied (the
\* call passes no processor).
TokenSortRatioAtLeast(name1, name2, threshold) ==
    LET s1 == TokenSorted(name1)
        s2 == TokenSorted(name2)
    IN  200 * LcsLen(s1, s2) >= threshold * (Len(s1) + Len(s2))

\* _is_duplicate(name1, name2)
IsDuplicate(name1, name2) ==
    IF Lower(name1) = Lower(name2) THEN TRUE
    ELSE TokenSortRatioAtLeast(name1, name2, Threshold)

\* "cd ab"
NameCdAb == <<"c", "d", " ", "a", "b">>
\* "ab cde": token-sort similarity 90.9 with "cd ab"
NameAbCde == <<"a", "b", " ", "c", "d", "e">>
\* "CD AB": equal to "cd ab" up to case, similarity 20 with it otherwise
NameUpper == <<"C", "D", " ", "A", "B">>

Names == {NameCdAb, NameAbCde, NameUpper}

\* _is_duplicate on the names of the model, as a table that is evaluated
\* once (@@ makes the function an explicit one)
DuplicateNames == [p \in Names \X Names |-> IsDuplicate(p[1], p[2])] @@ <<>>

Duplicate(name1, name2) == DuplicateNames[<<name1, name2>>]

\* A variant of the inner loop that matches equal names only.
FindMatchEqualNames(name, res) ==
    LET hits == {i \in 1..Len(res) : name = res[i]["name"]}
    IN  IF hits = {} THEN 0
        ELSE CHOOSE i \in hits : \A j \in hits : i <= j

\* A variant of the inner loop without its `break`: the last identity whose
\* name duplicates `name`.
FindMatchLast(name, res) ==
    LET hits == {i \in 1..Len(res) : Duplicate(name, res[i]["name"])}
    IN  IF hits = {} THEN 0
        ELSE CHOOSE i \in hits : \A j \in hits : i >= j

\* The inner loop of resolve_entities: the index in `res` of the first
\* identity whose name duplicates `name`, 0 when there is none (match is None).
FindMatch(name, res) ==
    LET hits == {i \in 1..Len(res) : Duplicate(name, res[i]["name"])}
    IN  IF hits = {} THEN 0
        ELSE CHOOSE i \in hits : \A j \in hits : i <= j

\* `ent.get("source") and ent.get("handle")`
HasSourceAndHandle(ent) ==
    Truthy(Get(ent, "source", None)) /\ Truthy(Get(ent, "handle", None))

\* A variant of the match-is-None branch that always starts with an empty
\* handles map.
NewIdentityNoHandles(ent) == Put(ent, "handles", EmptyDict)

\* The match-is-None branch: the new identity.
NewIdentity(ent) ==
    Put(ent, "handles",
        IF HasSourceAndHandle(ent)
        THEN Put(EmptyDict, ent["source"], ent["handle"])
        ELSE EmptyDict)

\* A variant of the comparison that lets every record win.
WinsAlways(match, ent) == TRUE

\* `ent["rating"] > match.get("rating", 0)`, for a record with a rating
Wins(match, ent) == ent["rating"] > Get(match, "rating", 0)

\* Variants of the promotion: one that also takes the record's name, one
\* that leaves the source as it was.
PromoteRenaming(match, ent) ==
    Put(Put(Put(match, "rating", ent["rating"]), "source", ent["source"]),
        "name", ent["name"])

PromoteKeepingSource(match, ent) == Put(match, "rating", ent["rating"])

\* `match["rating"] = ent["rating"]; match["source"] = ent["source"]`, for a
\* record with a source
Promote(match, ent) ==
    Put(Put(match, "rating", ent["rating"]), "source", ent["source"])

\* Variants of the handles update: one that keeps the handle already stored
\* under the source (handles.setdefault), one that drops the other sources.
UpdateHandlesKeepingFirst(match, ent) ==
    LET handles == Get(match, "handles", EmptyDict)
    IN  Put(match, "handles",
            IF ent["source"] \in DOMAIN handles THEN handles
            ELSE Put(handles, ent["source"], ent["handle"]))

UpdateHandlesReset(match, ent) ==
    Put(match, "handles", Put(EmptyDict, ent["source"], ent["handle"]))

\* `handles = match.setdefault("handles", {}); handles[source] = handle`
UpdateHandles(match, ent) ==
    Put(match, "handles",
        Put(Get(match, "handles", EmptyDict), ent["source"], ent["handle"]))

\* The merge branch, as a pair: whether a KeyError was raised, and the
\* matched identity as the branch leaves it.  ent["rating"] raises on a
\* record without a rating; ent["source"] raises on a record without a
\* source, after match["rating"] has been assigned.
MergeRecord(match, ent) ==
    IF ~HasKey(ent, "rating")
    THEN [raised |-> TRUE, match |-> match]
    ELSE IF Wins(match, ent) /\ ~HasKey(ent, "source")
    THEN [raised |-> TRUE, match |-> Put(match, "rating", ent["rating"])]
    ELSE LET m1 == IF Wins(match, ent) THEN Promote(match, ent) ELSE match
         IN  [raised |-> FALSE,
              match |-> IF HasSourceAndHandle(ent)
                        THEN UpdateHandles(m1, ent)
                        ELSE m1]

\* A variant of the iteration that puts a new identity at the head of the
\* list.
ResolveStepPrepending(res, ent) ==
    LET m == FindMatch(ent["name"], res)
    IN  IF m = 0
        THEN [raised |-> FALSE, resolved |-> <<NewIdentity(ent)>> \o res]
        ELSE LET out == MergeRecord(res[m], ent)
             IN  [raised |-> out.raised,
                  resolved |-> [res EXCEPT ![m] = out.match]]

\* One iteration of the outer loop, as a pair: whether it raised, and the
\* resolved list after it.
ResolveStep(res, ent) ==
    LET m == FindMatch(ent["name"], res)
    IN  IF m = 0
        THEN [raised |-> FALSE, resolved |-> Append(res, NewIdentity(ent))]
        ELSE LET out == MergeRecord(res[m], ent)
             IN  [raised |-> out.raised,
                  resolved |-> [res EXCEPT ![m] = out.match]]

\* resolve_entities(ents) as a function: the pair of whether it raised and
\* the list it had built.
RECURSIVE ResolveFrom(_, _)
ResolveFrom(res, ents) ==
    IF ents = <<>> THEN [raised |-> FALSE, resolved |-> res]
    ELSE LET out == ResolveStep(res, Head(ents))
         IN  IF out.raised THEN out
             ELSE ResolveFrom(out.resolved, Tail(ents))

resolve_entities(ents) == ResolveFrom(<<>>, ents)

----------------------------------------------------------------------------
(* The inputs of the model. *)

Ratings == {1200, 1500}
Sources == {"codeforces", "kaggle"}
Handles == {"al", "bo"}

\* a dict with the given keys
Rec(name, rating, source, handle) ==
    ("name" :> name) @@ ("rating" :> rating) @@ ("source" :> source)
        @@ ("handle" :> handle)

\* The records resolve_entities is given: complete records, records with
\* an empty handle, records without a source key, and records with a name
\* only (those of tests/test_resolution.py).
RawRecords ==
    {Rec(n, r, s, h) : n \in Names, r \in Ratings, s \in Sources, h \in Handles}
    \cup {Rec(n, r, "codeforces", "") : n \in Names, r \in {1200}}
    \cup {("name" :> n) @@ ("rating" :> r) @@ ("handle" :> "al") :
             n \in Names, r \in Ratings}
    \cup {("name" :> n) : n \in Names}

----------------------------------------------------------------------------
(* resolve_entities as a state machine: one step per record of the input. *)
(* `entities` is the part of the input the loop has consumed.             *)

\* fetch_ratings is not called
FetchIdle ==
    /\ skip_cache = FALSE
    /\ limit = 0
    /\ returned = <<>>

\* interestingness_score is not running
ScoreIdle ==
    /\ profile = EmptyDict
    /\ scored = EmptyDict
    /\ spc = "idle"

\* nothing is computed yet after the percentiles of the sources
TailIdle ==
    /\ geo_percentile_map = EmptyDict
    /\ source_stats = EmptyDict
    /\ prev_ratings = EmptyDict
    /\ identities = <<>>
    /\ ranked_entities = <<>>

\* orchestrate is not running
NormIdle ==
    /\ combined_raw = <<>>
    /\ ratings_by_src = EmptyDict
    /\ percentile_map = EmptyDict
    /\ total_in_src = EmptyDict
    /\ npc = "idle"
    /\ catalog = NoCatalog
    /\ TailIdle
    /\ FetchIdle
    /\ ScoreIdle

\* resolve_entities is not running
ResolverIdle ==
    /\ entities = <<>>
    /\ resolved = <<>>
    /\ rpc = "idle"
    /\ alias = <<>>

\* A variant of the new identity that is the record itself, not a copy.
NoCopyOf(k) == k

\* new_ent = ent.copy(), for the k-th record of the input: the identity is
\* a dict of its own and the same object as no record
CopyOf(k) == 0

\* The input as the caller sees it after an iteration: a record that is the
\* same dict as an identity shows what was written to the identity.
InputSeen(ents, al, res) ==
    IF \A i \in 1..Len(al) : al[i] = 0 THEN ents
    ELSE [k \in 1..Len(ents) |->
             IF \E i \in 1..Len(al) : al[i] = k
             THEN res[CHOOSE i \in 1..Len(al) : al[i] = k]
             ELSE ents[k]]

Init ==
    /\ entities = <<>>
    /\ resolved = <<>>
    /\ rpc = "loop"
    /\ alias = <<>>
    /\ NormIdle

\* an iteration that finds no match and appends a new identity
ResolveNew ==
    /\ rpc = "loop"
    /\ Len(entities) < MaxRecords
    /\ \E ent \in RawRecords :
           /\ FindMatch(ent["name"], resolved) = 0
           /\ resolved' = ResolveStep(resolved, ent).resolved
           /\ alias' = Append(alias, CopyOf(Len(entities) + 1))
           /\ entities' = InputSeen(Append(entities, ent), alias', resolved')
    /\ rpc' = "loop"
    /\ UNCHANGED <<normVars, statVars, tailVars, scoreVars, fetchVars>>

\* an iteration that merges the record into the matched identity
ResolveMerge ==
    /\ rpc = "loop"
    /\ Len(entities) < MaxRecords
    /\ \E ent \in RawRecords :
           LET out == ResolveStep(resolved, ent)
           IN  /\ FindMatch(ent["name"], resolved) # 0
               /\ ~out.raised
               /\ resolved' = out.resolved
               /\ alias' = alias
               /\ entities' = InputSeen(Append(entities, ent), alias', resolved')
    /\ rpc' = "loop"
    /\ UNCHANGED <<normVars, statVars, tailVars, scoreVars, fetchVars>>

\* an iteration whose merge raises KeyError: resolve_entities is left
ResolveRaise ==
    /\ rpc = "loop"
    /\ Len(entities) < MaxRecords
    /\ \E ent \in RawRecords :
           LET out == ResolveStep(resolved, ent)
           IN  /\ FindMatch(ent["name"], resolved) # 0
               /\ out.raised
               /\ resolved' = out.resolved
               /\ alias' = alias
               /\ entities' = InputSeen(Append(entities, ent), alias', resolved')
    /\ rpc' = "raised"
    /\ UNCHANGED <<normVars, statVars, tailVars, scoreVars, fetchVars>>

Next ==
    \/ ResolveNew
    \/ ResolveMerge
    \/ ResolveRaise

Spec == Init /\ [][Next]_vars

----------------------------------------------------------------------------
(* main.py, orchestrate: the percentile of each record within its source. *)
(* A percentile is the exact fraction <<p, q>>, p / q, of the float the    *)
(* code computes.                                                          *)

\* a <= b for two fractions with positive denominators
FracLeq(a, b) == a[1] * b[2] <= b[1] * a[2]

FracEq(a, b) == a[1] * b[2] = b[1] * a[2]

FracMin(a, b) == IF FracLeq(a, b) THEN a ELSE b

\* max(a, b) for two fractions: the first argument unless the second is
\* greater
FracMax(a, b) == IF FracLeq(b, a) THEN a ELSE b

\* the insertion of one value into a descending list
RECURSIVE InsertDescending(_, _)
InsertDescending(v, vals) ==
    IF vals = <<>> THEN <<v>>
    ELSE IF v > Head(vals) THEN <<v>> \o vals
    ELSE <<Head(vals)>> \o InsertDescending(v, Tail(vals))

\* A variant of the sort without reverse=True.
RECURSIVE SortedAscending(_)
SortedAscending(vals) ==
    IF vals = <<>> THEN <<>>
    ELSE LET rest == SortedAscending(Tail(vals))
             RECURSIVE Ins(_, _)
             Ins(v, xs) == IF xs = <<>> THEN <<v>>
                           ELSE IF v < Head(xs) THEN <<v>> \o xs
                           ELSE <<Head(xs)>> \o Ins(v, Tail(xs))
         IN  Ins(Head(vals), rest)

\* sorted(values, reverse=True)
RECURSIVE SortedDescending(_)
SortedDescending(vals) ==
    IF vals = <<>> THEN <<>>
    ELSE InsertDescending(Head(vals), SortedDescending(Tail(vals)))

\* `1 - idx / (total - 1) if total > 1 else 1.0`, idx counted from 0
RankPercentile(idx, total) ==
    IF total > 1 THEN <<total - 1 - idx, total - 1>> ELSE <<1, 1>>

\* A variant of the mapping entry that keeps the least percentile of a
\* rating.
MappingEntryMin(mapping, val, pct) ==
    IF val \in DOMAIN mapping THEN FracMin(mapping[val], pct) ELSE pct

\* `mapping[val] = max(mapping.get(val, 0), ...)`
MappingEntry(mapping, val, pct) == FracMax(Get(mapping, val, <<0, 1>>), pct)

\* the loop over enumerate(sorted_vals), from position idx on
RECURSIVE MappingFrom(_, _, _)
MappingFrom(sorted_vals, idx, mapping) ==
    IF idx >= Len(sorted_vals) THEN mapping
    ELSE LET val == sorted_vals[idx + 1]
         IN  MappingFrom(sorted_vals, idx + 1,
                 Put(mapping, val,
                     MappingEntry(mapping, val,
                                  RankPercentile(idx, Len(sorted_vals)))))

\* the mapping of one source: rating -> percentile
PercentileMapping(values) == MappingFrom(SortedDescending(values), 0, EmptyDict)

\* ratings_by_src[src], the ratings of the records of src in input order,
\* a missing rating counting as 0.0
RECURSIVE RatingsOf(_, _)
RatingsOf(raw, src) ==
    IF raw = <<>> THEN <<>>
    ELSE IF Head(raw)["source"] = src
         THEN <<Get(Head(raw), "rating", 0)>> \o RatingsOf(Tail(raw), src)
         ELSE RatingsOf(Tail(raw), src)

\* the records orchestrate has fetched: a source and, unless the key is
\* missing, a rating
NormRatings == {0, 800, 1000}
NormSources == {"codeforces", "kaggle"}

FetchedRecords ==
    {("source" :> s) @@ ("rating" :> r) : s \in NormSources, r \in NormRatings}
    \cup {("source" :> s) : s \in NormSources}

InitNorm ==
    /\ combined_raw \in UNION {[1..n -> FetchedRecords] : n \in 0..MaxRaw}
    /\ ratings_by_src = EmptyDict
    /\ percentile_map = EmptyDict
    /\ total_in_src = EmptyDict
    /\ npc = "fetched"
    /\ catalog = NoCatalog
    /\ TailIdle
    /\ FetchIdle
    /\ ScoreIdle
    /\ ResolverIdle

\* the loop filling ratings_by_src
GroupRatings ==
    /\ npc = "fetched"
    /\ ratings_by_src' =
           [src \in {combined_raw[k]["source"] : k \in 1..Len(combined_raw)}
               |-> RatingsOf(combined_raw, src)]
    /\ npc' = "grouped"
    /\ UNCHANGED <<combined_raw, percentile_map, total_in_src, resolverVars,
                   statVars, tailVars, scoreVars, fetchVars>>

\* the loop filling percentile_map, and total_in_src
ComputePercentiles ==
    /\ npc = "grouped"
    /\ percentile_map' =
           [src \in DOMAIN ratings_by_src |-> PercentileMapping(ratings_by_src[src])]
    /\ total_in_src' = [src \in DOMAIN ratings_by_src |-> Len(ratings_by_src[src])]
    /\ npc' = "ranked"
    /\ UNCHANGED <<combined_raw, ratings_by_src, resolverVars, statVars,
                   tailVars, scoreVars, fetchVars>>

\* `ent.get("country")` is truthy
HasCountry(ent) == Truthy(Get(ent, "country", None))

\* A variant of the bucket key that leaves the country out.
GeoKeySourceOnly(ent) == <<ent["source"], "*">>

\* the key of ratings_by_geo: (ent["source"], ent["country"])
GeoKey(ent) == <<ent["source"], ent["country"]>>

\* ratings_by_geo[key], the ratings of the records of one bucket in input
\* order; a record without a country is in no bucket
RECURSIVE GeoRatingsOf(_, _)
GeoRatingsOf(raw, key) ==
    IF raw = <<>> THEN <<>>
    ELSE IF HasCountry(Head(raw)) /\ GeoKey(Head(raw)) = key
         THEN <<Get(Head(raw), "rating", 0)>> \o GeoRatingsOf(Tail(raw), key)
         ELSE GeoRatingsOf(Tail(raw), key)

\* the loops filling ratings_by_geo and geo_percentile_map
ComputeGeoPercentiles ==
    /\ npc = "ranked"
    /\ geo_percentile_map' =
           [key \in {GeoKey(combined_raw[k]) :
                        k \in {j \in 1..Len(combined_raw) : HasCountry(combined_raw[j])}}
               |-> PercentileMapping(GeoRatingsOf(combined_raw, key))]
    /\ npc' = "georanked"
    /\ UNCHANGED <<combined_raw, ratings_by_src, percentile_map, total_in_src,
                   source_stats, resolverVars, tailVars, scoreVars, fetchVars>>

\* sum(values)
RECURSIVE Sum(_)
Sum(values) == IF values = <<>> THEN 0 ELSE Head(values) + Sum(Tail(values))

\* sum((v - mean) ** 2 for v in values) for mean = s / n, in units of
\* 1 / n^2
RECURSIVE SumSqDev(_, _, _)
SumSqDev(values, s, n) ==
    IF values = <<>> THEN 0
    ELSE (n * Head(values) - s) * (n * Head(values) - s)
             + SumSqDev(Tail(values), s, n)

\* A variant of the standard deviation without the `or 1.0`.
StdOfNoFallback(var) == var

\* `math.sqrt(var) or 1.0`.  A standard deviation is kept as its square,
\* an exact fraction: the square root of 0 is falsy and gives way to 1.0.
StdOf(var) == IF var[1] = 0 THEN <<1, 1>> ELSE var

\* the mean and the standard deviation (as its square) of a non-empty list
\* of ratings
SourceStats(values) ==
    LET n == Len(values)
        s == Sum(values)
    IN  [mean |-> <<s, n>>, std |-> StdOf(<<SumSqDev(values, s, n), n * n * n>>)]

\* the loop filling source_stats: a source with no ratings gets no entry
ComputeStats ==
    /\ npc = "georanked"
    /\ source_stats' =
           [src \in {x \in DOMAIN ratings_by_src : ratings_by_src[x] # <<>>}
               |-> SourceStats(ratings_by_src[src])]
    /\ npc' = "stats"
    /\ UNCHANGED <<combined_raw, ratings_by_src, percentile_map, total_in_src,
                   geo_percentile_map, resolverVars, tailVars, scoreVars,
                   fetchVars>>

\* what the annotation loop stores in one record.  unified_z, which no
\* later step reads, is left out.
Annotated(ent) ==
    LET src == ent["source"]
        rating == Get(ent, "rating", 0)
        norm == Get(percentile_map[src], rating, <<0, 1>>)
        geo_norm == IF HasCountry(ent)
                    THEN Get(Get(geo_percentile_map, GeoKey(ent), EmptyDict),
                             rating, <<0, 1>>)
                    ELSE <<0, 1>>
    IN  Put(Put(Put(Put(ent, "norm", norm), "geo_norm", geo_norm),
                "src_weight", 1),
            "total_in_src", Get(total_in_src, src, 0))

\* the loop annotating the records in place
AnnotateRecords ==
    /\ npc = "stats"
    /\ combined_raw' = [k \in 1..Len(combined_raw) |-> Annotated(combined_raw[k])]
    /\ npc' = "annotated"
    /\ UNCHANGED <<ratings_by_src, percentile_map, total_in_src, resolverVars,
                   statVars, tailVars, scoreVars, fetchVars>>

NextNorm ==
    \/ GroupRatings
    \/ ComputePercentiles
    \/ ComputeGeoPercentiles
    \/ ComputeStats
    \/ AnnotateRecords

\* the records orchestrate has fetched, with the country the ingest modules
\* store: a code, or None
GeoRatings == {800, 1000}
Countries == {"US", "GB", None}

GeoRecords ==
    {("source" :> "codeforces") @@ ("rating" :> r) @@ ("country" :> c) :
        r \in GeoRatings, c \in Countries}
    \cup {("source" :> "kaggle") @@ ("rating" :> r) @@ ("country" :> "US") :
             r \in GeoRatings}

InitGeo ==
    /\ combined_raw \in UNION {[1..n -> GeoRecords] : n \in 0..MaxRaw}
    /\ ratings_by_src = EmptyDict
    /\ percentile_map = EmptyDict
    /\ total_in_src = EmptyDict
    /\ npc = "fetched"
    /\ catalog = NoCatalog
    /\ TailIdle
    /\ FetchIdle
    /\ ScoreIdle
    /\ ResolverIdle

SpecGeo == InitGeo /\ [][NextNorm]_vars

----------------------------------------------------------------------------
(* main.py, orchestrate: the momentum, the resolution and the z-score.     *)
(* A quotient by a standard deviation is kept exactly: `num` is the        *)
(* dividend, a fraction, and `over` the divisor as source_stats keeps it,  *)
(* the fraction that is its square.                                        *)

\* the largest number of fetched records the later stages of orchestrate
\* are run on
MaxFetched == 3

\* a - b for two fractions
FracSub(a, b) == <<a[1] * b[2] - b[1] * a[2], a[2] * b[2]>>

\* num / std
Quot(num, std) == [num |-> num, over |-> std]

\* 0.0
Zero == [num |-> <<0, 1>>, over |-> <<1, 1>>]

\* date.today() and the day before it, in ISO format
Today == "2026-11-05"
Yesterday == "2026-11-04"

\* A JSON object is the list of its <<key, value>> pairs in the order of
\* the file.  A value of the catalog is tagged with its type: an object
\* carries its items as a dict, any other value (a list, a string) has none.
JsonObject(items) == [kind |-> "dict", items |-> items]
JsonOther == [kind |-> "list", items |-> EmptyDict]

\* a catalog file holding the given JSON object
CatalogFile(object) == [json |-> TRUE, object |-> object]

\* a catalog file that is not JSON
Unreadable == [json |-> FALSE, object |-> <<<<"?", JsonOther>>>>]

\* cache._load_catalog: {} for a file that is missing or is not JSON
LoadCatalog(file) == IF file.json THEN file.object ELSE <<>>

\* the position of a key in a JSON object, 0 if it is missing
KeyPosition(cat, key) ==
    IF \E i \in 1..Len(cat) : cat[i][1] = key
    THEN CHOOSE i \in 1..Len(cat) : cat[i][1] = key
    ELSE 0

\* cache.set_cached on the given day:
\* catalog.setdefault(day, {})[source] = data
SetCached(file, day, source, data) ==
    LET cat == LoadCatalog(file)
        pos == KeyPosition(cat, day)
    IN  CatalogFile(
            IF pos = 0
            THEN Append(cat, <<day, JsonObject(Put(EmptyDict, source, data))>>)
            ELSE [cat EXCEPT ![pos] =
                     <<day, JsonObject(Put(cat[pos][2].items, source, data))>>])

\* the loop over entry.get("data", []):
\* prev_ratings[src][u.get("handle")] = u.get("rating", 0)
RECURSIVE AddUsers(_, _, _)
AddUsers(prev, src, data) ==
    IF data = <<>> THEN prev
    ELSE LET u == Head(data)
             of_src == Put(Get(prev, src, EmptyDict),
                           Get(u, "handle", None), Get(u, "rating", 0))
         IN  AddUsers(Put(prev, src, of_src), src, Tail(data))

\* the snapshot of one entry of the catalog: its data if it was fetched
\* yesterday
EntryData(entry) ==
    IF Get(entry.items, "fetched_at", None) = Yesterday
    THEN Get(entry.items, "data", <<>>)
    ELSE <<>>

\* The loop over catalog.items() inside the try, from entry i on.  An
\* entry without a .get raises AttributeError, which ends the loop and is
\* swallowed: what the loop has stored so far stays.
RECURSIVE PrevRatingsFrom(_, _, _)
PrevRatingsFrom(cat, i, prev) ==
    IF i > Len(cat) THEN prev
    ELSE LET src == cat[i][1]
             entry == cat[i][2]
         IN  IF entry.kind # "dict" THEN prev
             ELSE PrevRatingsFrom(cat, i + 1,
                                  AddUsers(prev, src, EntryData(entry)))

\* the try block building prev_ratings
LoadPrevRatings ==
    /\ npc = "annotated"
    /\ prev_ratings' = PrevRatingsFrom(LoadCatalog(catalog), 1, EmptyDict)
    /\ npc' = "loaded"
    /\ UNCHANGED <<combined_raw, ratings_by_src, percentile_map, total_in_src,
                   statVars, catalog, identities, ranked_entities, resolverVars,
                   scoreVars, fetchVars>>

\* the momentum of one record: delta_sigma stays unset for a record found
\* in the snapshot when the standard deviation of its source is falsy
Momentum(ent) ==
    LET src == ent["source"]
        of_src == Get(prev_ratings, src, EmptyDict)
    IN  IF HasKey(of_src, ent["handle"]) /\ HasKey(source_stats, src)
        THEN LET prev == of_src[ent["handle"]]
                 std == source_stats[src].std
             IN  IF std[1] # 0
                 THEN Put(ent, "delta_sigma",
                          Quot(<<Get(ent, "rating", 0) - prev, 1>>, std))
                 ELSE ent
        ELSE Put(ent, "delta_sigma", Zero)

\* the loop storing delta_sigma in the records
ComputeMomentum ==
    /\ npc = "loaded"
    /\ combined_raw' = [k \in 1..Len(combined_raw) |-> Momentum(combined_raw[k])]
    /\ npc' = "momentum"
    /\ UNCHANGED <<ratings_by_src, percentile_map, total_in_src, statVars,
                   tailVars, resolverVars, scoreVars, fetchVars>>

\* entities = entity_resolution.resolve_entities(combined_raw)
ResolveEntities ==
    /\ npc = "momentum"
    /\ LET out == resolve_entities(combined_raw)
       IN  /\ ~out.raised
           /\ identities' = out.resolved
    /\ npc' = "resolved"
    /\ UNCHANGED <<combined_raw, ratings_by_src, percentile_map, total_in_src,
                   statVars, catalog, prev_ratings, ranked_entities, resolverVars,
                   scoreVars, fetchVars>>

\* A variant of the versatility that counts the identity itself as well.
VersatilityPlusOne(e) == Cardinality(DOMAIN Get(e, "handles", EmptyDict)) + 1

\* len(e.get("handles", {}))
Versatility(e) == Cardinality(DOMAIN Get(e, "handles", EmptyDict))

\* the loop storing the versatility of the identities
SetVersatility ==
    /\ npc = "resolved"
    /\ identities' = [k \in 1..Len(identities) |->
                         Put(identities[k], "versatility", Versatility(identities[k]))]
    /\ npc' = "versatile"
    /\ UNCHANGED <<combined_raw, ratings_by_src, percentile_map, total_in_src,
                   statVars, catalog, prev_ratings, ranked_entities, resolverVars,
                   scoreVars, fetchVars>>

\* A variant of the z-score that tests the presence of the rating, not
\* its truth.
RatingZPresent(ent) ==
    LET src == ent["source"]
    IN  IF HasKey(source_stats, src) /\ HasKey(ent, "rating")
        THEN Put(ent, "rating_z",
                 Quot(FracSub(<<ent["rating"], 1>>, source_stats[src].mean),
                      source_stats[src].std))
        ELSE Put(ent, "rating_z", Zero)

\* the z-score of one identity: `if stats and ent.get("rating")`, where a
\* rating of 0 is falsy
RatingZ(ent) ==
    LET src == ent["source"]
    IN  IF HasKey(source_stats, src) /\ Get(ent, "rating", 0) # 0
        THEN Put(ent, "rating_z",
                 Quot(FracSub(<<ent["rating"], 1>>, source_stats[src].mean),
                      source_stats[src].std))
        ELSE Put(ent, "rating_z", Zero)

\* the loop storing rating_z in the identities
ComputeRatingZ ==
    /\ npc = "versatile"
    /\ identities' = [k \in 1..Len(identities) |-> RatingZ(identities[k])]
    /\ npc' = "zscored"
    /\ UNCHANGED <<combined_raw, ratings_by_src, percentile_map, total_in_src,
                   statVars, catalog, prev_ratings, ranked_entities, resolverVars,
                   scoreVars, fetchVars>>

NextOrch ==
    \/ GroupRatings
    \/ ComputePercentiles
    \/ ComputeGeoPercentiles
    \/ ComputeStats
    \/ AnnotateRecords
    \/ LoadPrevRatings
    \/ ComputeMomentum
    \/ ResolveEntities
    \/ SetVersatility
    \/ ComputeRatingZ

\* the records orchestrate has fetched from two sources, with a name, a
\* handle and a rating, on a day with no catalog file
ZRatings == {0, 12}

ZRecords == {Rec(n, r, s, "al") : n \in Names, r \in ZRatings, s \in NormSources}

InitZ ==
    /\ combined_raw \in UNION {[1..n -> ZRecords] : n \in 0..MaxFetched}
    /\ ratings_by_src = EmptyDict
    /\ percentile_map = EmptyDict
    /\ total_in_src = EmptyDict
    /\ npc = "fetched"
    /\ catalog = NoCatalog
    /\ TailIdle
    /\ FetchIdle
    /\ ScoreIdle
    /\ ResolverIdle

SpecZ == InitZ /\ [][NextOrch]_vars

\* the records orchestrate has fetched on a day when the catalog file
\* holds what an earlier run left: each handle has its own name
MomentumRatings == {12, 15}

NameOfHandle == ("al" :> NameCdAb) @@ ("bo" :> NameAbCde)

MomentumRecords ==
    {Rec(NameOfHandle[h], r, s, h) :
        h \in Handles, r \in MomentumRatings, s \in NormSources}

\* what a source returned the day before: handle "al" rated 10
SnapshotData(src) == <<Rec(NameOfHandle["al"], 10, src, "al")>>

\* an entry of the catalog as the momentum loop reads it
SnapshotEntry(src, day) ==
    <<src, JsonObject(("fetched_at" :> day) @@ ("data" :> SnapshotData(src)))>>

\* an entry of the catalog that is not an object
BadEntry(key) == <<key, JsonOther>>

\* the catalog files the cache has written: the day before only, the day
\* before and today, and two sources on the day before
CacheCatalogs ==
    LET day1 == SetCached(NoCatalog, Yesterday, "codeforces",
                          SnapshotData("codeforces"))
    IN  {day1,
         SetCached(day1, Today, "codeforces", SnapshotData("codeforces")),
         SetCached(day1, Yesterday, "kaggle", SnapshotData("kaggle"))}

\* catalog files of other origins: not JSON, entries keyed by source with
\* the day they were fetched, and entries that are not objects
OtherCatalogs ==
    {Unreadable,
     CatalogFile(<<SnapshotEntry("codeforces", Yesterday)>>),
     CatalogFile(<<SnapshotEntry("codeforces", Today)>>),
     CatalogFile(<<BadEntry("kaggle")>>),
     CatalogFile(<<SnapshotEntry("codeforces", Yesterday), BadEntry("kaggle")>>),
     CatalogFile(<<BadEntry("kaggle"), SnapshotEntry("codeforces", Yesterday)>>)}

Catalogs == {NoCatalog} \cup CacheCatalogs \cup OtherCatalogs

InitMomentum ==
    /\ combined_raw \in UNION {[1..n -> MomentumRecords] : n \in 0..MaxFetched}
    /\ ratings_by_src = EmptyDict
    /\ percentile_map = EmptyDict
    /\ total_in_src = EmptyDict
    /\ npc = "fetched"
    /\ catalog \in Catalogs
    /\ TailIdle
    /\ FetchIdle
    /\ ScoreIdle
    /\ ResolverIdle

SpecMomentum == InitMomentum /\ [][NextOrch]_vars

----------------------------------------------------------------------------
(* etl/scoring.py, interestingness_score, and the loops of orchestrate     *)
(* that prepare and score one identity.  The floats of the scoring are     *)
(* kept in thousandths: 1.5 is 1500, and a product or a quotient is        *)
(* rounded down to a thousandth.                                           *)

\* the largest number of platforms of an identity
MaxHandles == 5

\* the float of an integer
Float(n) == n * 1000

\* a * b
Mul(a, b) == (a * b) \div 1000

\* a / b
Div(a, b) == (a * 1000) \div b

Min(a, b) == IF a <= b THEN a ELSE b

\* math.exp, at the arguments the model uses
ExpTable ==
    (-2000 :> 135) @@ (-500 :> 607) @@ (0 :> 1000) @@ (500 :> 1649)
        @@ (2000 :> 7389)

Exp(x) == ExpTable[x]

\* A variant of the base score with math.exp(z).
BaseScoreOfExpZ(z) == Mul(Div(Float(1), Float(1) + Exp(z)), Float(1000))

\* (1 / (1 + math.exp(-z))) * 1000
BaseScoreOf(z) == Mul(Div(Float(1), Float(1) + Exp(-z)), Float(1000))

\* base_score: from rating_z, or from the percentile clamped to [0, 1]
BaseScore(p) ==
    IF HasKey(p, "rating_z") THEN BaseScoreOf(p["rating_z"])
    ELSE Mul(Min(Max(Get(p, "norm", 0), 0), Float(1)), Float(1000))

\* 50 if len(profile.get("handles", {})) > 1 else 0.0
MultiSourceBonus(p) ==
    IF Cardinality(DOMAIN Get(p, "handles", EmptyDict)) > 1
    THEN Float(50) ELSE 0

\* profile.get("delta_sigma", 0.0) * 50
MomentumTerm(p) == Mul(Get(p, "delta_sigma", 0), Float(50))

\* A variant of the factor that shrinks with the versatility.
VersatilityFactorShrinking(p) ==
    Float(1) - Min(250, Mul(100, Float(Get(p, "versatility", 1) - 1)))

\* 1 + min(0.25, 0.1 * (profile.get("versatility", 1) - 1))
VersatilityFactor(p) ==
    Float(1) + Min(250, Mul(100, Float(Get(p, "versatility", 1) - 1)))

\* A variant of the rank bonus that is given on any source.
RankBonusAnySource(p) ==
    IF /\ HasKey(p, "rank") /\ p["rank"] # 0
       /\ HasKey(p, "total_in_src") /\ p["total_in_src"] > 1
    THEN Mul(Div(Float(p["total_in_src"] - p["rank"] + 1),
                 Float(p["total_in_src"])),
             Float(300))
    ELSE 0

\* the AtCoder rank bonus: a rank of None or 0 and a total of 0 are falsy
RankBonus(p) ==
    IF /\ Get(p, "source", None) = "atcoder"
       /\ HasKey(p, "rank") /\ p["rank"] # 0
       /\ HasKey(p, "total_in_src") /\ p["total_in_src"] # 0
       /\ p["total_in_src"] > 1
    THEN Mul(Div(Float(p["total_in_src"] - p["rank"] + 1),
                 Float(p["total_in_src"])),
             Float(300))
    ELSE 0

\* A variant of the geography bonus that takes a missing geo_norm for the
\* top of the bucket.
GeoBonusTopByDefault(p) ==
    LET geo_norm == Get(p, "geo_norm", Float(1))
    IN  Mul(Mul(geo_norm, geo_norm), Float(100))

\* (geo_norm ** 2) * 100
GeoBonus(p) ==
    LET geo_norm == Get(p, "geo_norm", 0)
    IN  Mul(Mul(geo_norm, geo_norm), Float(100))

\* A variant of the rising-star bonus that is given from 1.5 on.
RisingBonusFrom(p) == IF Get(p, "delta_sigma", 0) >= 1500 THEN Float(50) ELSE 0

\* 50 if profile.get("delta_sigma", 0.0) > 1.5 else 0.0
RisingBonus(p) == IF Get(p, "delta_sigma", 0) > 1500 THEN Float(50) ELSE 0

\* the terms of the score, the local variables of interestingness_score
Terms(p) ==
    [base_score |-> BaseScore(p),
     multi_source_bonus |-> MultiSourceBonus(p),
     momentum |-> MomentumTerm(p),
     versatility_factor |-> VersatilityFactor(p),
     rank_bonus |-> RankBonus(p),
     geo_bonus |-> GeoBonus(p),
     rising_bonus |-> RisingBonus(p)]

\* A variant of the composition with the flat bonuses inside the
\* multiplier.
ComposeFlatInside(t) ==
    Mul(t.base_score + t.momentum + t.geo_bonus + t.rising_bonus
            + t.multi_source_bonus + t.rank_bonus,
        t.versatility_factor)

\* score = (base_score + momentum + geo_bonus + rising_bonus)
\*             * versatility_factor + multi_source_bonus + rank_bonus
Compose(t) ==
    Mul(t.base_score + t.momentum + t.geo_bonus + t.rising_bonus,
        t.versatility_factor)
        + t.multi_source_bonus + t.rank_bonus

\* the clauses of reason_parts that are kept, in order, each by its kind
KeptClauses(clauses) == SelectSeq(clauses, LAMBDA c : c # None)

\* A variant of the reason with a momentum clause for any delta_sigma.
ReasonOfKeys(p, t) ==
    KeptClauses(<<
        "rating",
        IF HasKey(p, "rating_z") THEN "z" ELSE "pct",
        IF HasKey(p, "delta_sigma") THEN "delta_sigma" ELSE None,
        IF t.geo_bonus # 0 THEN "geo" ELSE None,
        IF t.rising_bonus # 0 THEN "Rising star" ELSE None,
        IF t.rank_bonus # 0 THEN "rank bonus" ELSE None,
        IF HasKey(p, "first_seen") THEN "first seen" ELSE None,
        IF Get(p, "versatility", 1) > 1 THEN "multi-platform" ELSE None>>)

\* reason_parts without its None entries: a clause by its kind
Reason(p, t) ==
    KeptClauses(<<
        "rating",
        IF HasKey(p, "rating_z") THEN "z" ELSE "pct",
        IF t.momentum # 0 THEN "delta_sigma" ELSE None,
        IF t.geo_bonus # 0 THEN "geo" ELSE None,
        IF t.rising_bonus # 0 THEN "Rising star" ELSE None,
        IF t.rank_bonus # 0 THEN "rank bonus" ELSE None,
        IF HasKey(p, "first_seen") THEN "first seen" ELSE None,
        IF Get(p, "versatility", 1) > 1 THEN "multi-platform" ELSE None>>)

\* interestingness_score(profile): the score and the reason it returns,
\* with the terms of the score
interestingness_score(p) ==
    LET t == Terms(p)
    IN  [terms |-> t, score |-> Compose(t), reason |-> Reason(p, t)]

\* the score alone
ScoreOf(p) == interestingness_score(p).score

\* the platforms an identity can have a handle on
HandleSources ==
    <<"codeforces", "atcoder", "kaggle", "leetcode", "topcoder", "hackerrank">>

\* the handles of an identity seen on the first k platforms
HandleMap(k) == [s \in {HandleSources[i] : i \in 1..k} |-> "al"]

\* what the annotation and the momentum have stored in a record, in
\* thousandths
DeltaSigmas == {-25000, 0, 1490, 1500, 2000}
GeoNorms == {0, 500, 1000}

\* what (rating - mean) / std of a source comes to
ZValues == {-2000, -500, 0, 500, 2000}

\* The identities resolve_entities returns to orchestrate: of AtCoder or
\* Codeforces, rated or not, with the handles of 1 to MaxHandles platforms
\* or without handles, with a rank or without, in a source of one or of
\* three, and with or without a delta_sigma.
ScoreEntities ==
    LET core == {("name" :> NameCdAb) @@ ("rating" :> r) @@ ("source" :> s)
                     @@ ("norm" :> 500) @@ ("geo_norm" :> g)
                     @@ ("total_in_src" :> n) @@ ("first_seen" :> Today) :
                     r \in {0, 1500}, s \in {"atcoder", "codeforces"},
                     g \in GeoNorms, n \in {1, 3}}
        ranked == core \cup {Put(e, "rank", 2) : e \in core}
        moved == ranked \cup {Put(e, "delta_sigma", d) :
                                 e \in ranked, d \in DeltaSigmas}
    IN  moved \cup {Put(e, "handles", HandleMap(k)) :
                       e \in moved, k \in 1..MaxHandles}

\* orchestrate is not running
OrchIdle ==
    /\ combined_raw = <<>>
    /\ ratings_by_src = EmptyDict
    /\ percentile_map = EmptyDict
    /\ total_in_src = EmptyDict
    /\ npc = "idle"
    /\ catalog = NoCatalog
    /\ TailIdle
    /\ FetchIdle

InitScore ==
    /\ profile \in ScoreEntities
    /\ scored = EmptyDict
    /\ spc = "resolved"
    /\ OrchIdle
    /\ ResolverIdle

\* e["versatility"] = len(e.get("handles", {}))
ProfileVersatility ==
    /\ spc = "resolved"
    /\ profile' = Put(profile, "versatility", Versatility(profile))
    /\ spc' = "versatile"
    /\ UNCHANGED <<scored, resolverVars, normVars, statVars, tailVars, fetchVars>>

\* the z-score of the identity: some value for a rated identity, 0.0 for
\* a rating of 0
ProfileRatingZ ==
    /\ spc = "versatile"
    /\ \E z \in ZValues :
           profile' = Put(profile, "rating_z",
                          IF Get(profile, "rating", 0) # 0 THEN z ELSE 0)
    /\ spc' = "zscored"
    /\ UNCHANGED <<scored, resolverVars, normVars, statVars, tailVars, fetchVars>>

\* score, reason = scoring.interestingness_score(entity), stored in the
\* identity
ScoreProfile ==
    /\ spc = "zscored"
    /\ scored' = interestingness_score(profile)
    /\ profile' = Put(Put(profile, "score", scored'.score),
                      "reason", scored'.reason)
    /\ spc' = "scored"
    /\ UNCHANGED <<resolverVars, normVars, statVars, tailVars, fetchVars>>

NextScore ==
    \/ ProfileVersatility
    \/ ProfileRatingZ
    \/ ScoreProfile

SpecScore == InitScore /\ [][NextScore]_vars

----------------------------------------------------------------------------
(* tests/test_scoring.py: interestingness_score called on a profile that   *)
(* did not come through orchestrate, so that any key but name, rating,     *)
(* source and norm can be missing.                                         *)

\* a profile with the key set to one of the values, or without the key
WithOptional(profiles, key, values) ==
    profiles \cup {Put(p, key, v) : p \in profiles, v \in values}

\* The profile of test_score_basic, of Codeforces or of AtCoder, and what
\* a caller can add to it.  A rank of None is a missing rank.
CallProfiles ==
    LET basic == {("name" :> NameCdAb) @@ ("rating" :> 1200)
                      @@ ("source" :> s) @@ ("norm" :> 300) :
                      s \in {"codeforces", "atcoder"}}
        p1 == WithOptional(basic, "rank", {0, 1, 3})
        p2 == WithOptional(p1, "total_in_src", {0, 1, 4})
        p3 == WithOptional(p2, "first_seen", {Today})
        p4 == WithOptional(p3, "delta_sigma", {0, 2000})
        p5 == WithOptional(p4, "geo_norm", {0, 500})
        p6 == WithOptional(p5, "versatility", {1, 2})
        p7 == WithOptional(p6, "rating_z", {0, 500})
        p8 == WithOptional(p7, "country", {"US"})
    IN  WithOptional(p8, "handles", {HandleMap(2)})

InitCall ==
    /\ profile \in CallProfiles
    /\ scored = EmptyDict
    /\ spc = "call"
    /\ OrchIdle
    /\ ResolverIdle

\* score, reason = interestingness_score(profile)
CallScore ==
    /\ spc = "call"
    /\ scored' = interestingness_score(profile)
    /\ spc' = "returned"
    /\ UNCHANGED <<profile, resolverVars, normVars, statVars, tailVars, fetchVars>>

NextCall == CallScore

SpecCall == InitCall /\ [][NextCall]_vars

----------------------------------------------------------------------------
(* main.py, orchestrate: the ranking of the scored identities.             *)

\* the length of the ranking
TopN == 25

\* the largest number of identities that are ranked
MaxScored == 27

\* A variant of the insertion that puts e before the elements of its score.
InsertByScoreBeforeTies(sorted, e) ==
    LET ahead == SelectSeq(sorted, LAMBDA x : x["score"] > e["score"])
        behind == SelectSeq(sorted, LAMBDA x : x["score"] <= e["score"])
    IN  ahead \o <<e>> \o behind

\* the place of e in a list sorted by score, the highest first: behind
\* every element whose score is not lower
InsertByScore(sorted, e) ==
    LET ahead == SelectSeq(sorted, LAMBDA x : x["score"] >= e["score"])
        behind == SelectSeq(sorted, LAMBDA x : x["score"] < e["score"])
    IN  ahead \o <<e>> \o behind

\* sorted(entities, key=lambda e: e["score"], reverse=True): the sort is
\* stable, also in reverse
RECURSIVE SortedByScore(_)
SortedByScore(ents) ==
    IF ents = <<>> THEN <<>>
    ELSE InsertByScore(SortedByScore(SubSeq(ents, 1, Len(ents) - 1)),
                       ents[Len(ents)])

\* a list sliced by [:n]
FirstN(list, n) == SubSeq(list, 1, Min(n, Len(list)))

\* ranked_entities = sorted(...)[:25]
RankEntities ==
    /\ npc = "scored"
    /\ ranked_entities' = FirstN(SortedByScore(identities), TopN)
    /\ npc' = "ranked"
    /\ UNCHANGED <<combined_raw, ratings_by_src, percentile_map, total_in_src,
                   statVars, catalog, prev_ratings, identities, resolverVars,
                   scoreVars, fetchVars>>

NextRank == RankEntities

\* the decimal digits
Digit == <<"0", "1", "2", "3", "4", "5", "6", "7", "8", "9">>

\* the name of the identity created as the i-th: u01, u02, ...
UserName(i) == <<"u", Digit[(i \div 10) + 1], Digit[(i % 10) + 1]>>

\* the ways the scores of the identities follow their creation: the score
\* of the i-th identity is (i * step) mod cycle, so that the highest score
\* comes first, last or in between and scores are shared or not
ScoreSteps == {1, 2, 3}
ScoreCycles == {1, 3, 5, 40}

\* the identities after the scoring loop of orchestrate
ScoredIdentities(n, step, cycle) ==
    [i \in 1..n |-> ("name" :> UserName(i))
                        @@ ("score" :> Float((i * step) % cycle))]

InitRank ==
    /\ \E n \in 0..MaxScored, step \in ScoreSteps, cycle \in ScoreCycles :
           identities = ScoredIdentities(n, step, cycle)
    /\ npc = "scored"
    /\ combined_raw = <<>>
    /\ ratings_by_src = EmptyDict
    /\ percentile_map = EmptyDict
    /\ total_in_src = EmptyDict
    /\ catalog = NoCatalog
    /\ geo_percentile_map = EmptyDict
    /\ source_stats = EmptyDict
    /\ prev_ratings = EmptyDict
    /\ ranked_entities = <<>>
    /\ FetchIdle
    /\ ScoreIdle
    /\ ResolverIdle

SpecRank == InitRank /\ [][NextRank]_vars

----------------------------------------------------------------------------
(* ingest/codeforces.py, fetch_ratings, with ingest/cache.py, called       *)
(* several times on one day as tests/test_ingest.py does.                  *)

\* the number of calls of fetch_ratings in a row
MaxCalls == 2

\* the longest list the cache holds for a source
MaxCached == 3

\* whether the module codeforces.py binds the name tqdm its loop calls: it
\* has no import of it
TqdmDefined == FALSE

\* cache.get_cached(source): the payload of today, or None (`hit` false)
\* without one or with TI_SKIP_CACHE set
GetCached(file, skip, source) ==
    LET cat == LoadCatalog(file)
        pos == KeyPosition(cat, Today)
        miss == [hit |-> FALSE, data |-> <<>>]
    IN  IF skip \/ pos = 0 THEN miss
        ELSE IF HasKey(cat[pos][2].items, source)
             THEN [hit |-> TRUE, data |-> cat[pos][2].items[source]]
             ELSE miss

\* cache.set_cached(source, data): nothing with TI_SKIP_CACHE set
SetCachedToday(file, skip, source, data) ==
    IF skip THEN file ELSE SetCached(file, Today, source, data)

\* the record fetch_ratings builds from a user of the API that has no
\* first and last name: the name is the handle
NormalisedUser(u) == Rec(NameOfHandle[u.handle], u.rating, "codeforces", u.handle)

\* the loop over the users of the response, cut to the limit
Normalised(users, n) ==
    [k \in 1..Min(n, Len(users)) |-> NormalisedUser(users[k])]

\* the limits of the calls: below, at and above the length of a payload
Limits == {1, 2, 5}

\* the lists of users the API answers with
ApiUsers ==
    {<<>>,
     <<[handle |-> "al", rating |-> 15]>>,
     <<[handle |-> "al", rating |-> 15], [handle |-> "bo", rating |-> 12]>>}

\* the payloads of Codeforces the cache can hold
Payloads ==
    {[k \in 1..n |-> Rec(NameOfHandle["al"], 15 - k, "codeforces", "al")] :
        n \in 0..MaxCached}

\* the catalog files at the first call: none, one that is not JSON, one of
\* the day before, and files with an entry of today, with or without a
\* payload of Codeforces
FetchCatalogs ==
    LET day1 == SetCached(NoCatalog, Yesterday, "codeforces",
                          SnapshotData("codeforces"))
    IN  {NoCatalog, Unreadable, day1,
         SetCached(NoCatalog, Today, "kaggle", SnapshotData("kaggle")),
         SetCached(day1, Today, "kaggle", SnapshotData("kaggle"))}
        \cup {SetCached(NoCatalog, Today, "codeforces", p) : p \in Payloads}
        \cup {SetCached(day1, Today, "codeforces", p) : p \in Payloads}

\* the call finds a payload for today in the cache and returns it, sliced
FetchFromCache ==
    /\ Len(returned) < MaxCalls
    /\ LET cached == GetCached(catalog, skip_cache, "codeforces")
       IN  /\ cached.hit
           /\ returned' = Append(returned, FirstN(cached.data, limit))
    /\ UNCHANGED <<skip_cache, limit, resolverVars, normVars, statVars,
                   tailVars, scoreVars>>

\* the call finds nothing in the cache and its request fails: a network
\* error, an HTTP error status or an API status other than OK
FetchRequestFails ==
    /\ Len(returned) < MaxCalls
    /\ ~GetCached(catalog, skip_cache, "codeforces").hit
    /\ returned' = Append(returned, <<>>)
    /\ UNCHANGED <<skip_cache, limit, resolverVars, normVars, statVars,
                   tailVars, scoreVars>>

\* The call finds nothing in the cache and its request succeeds.  The
\* header of the loop over the users calls tqdm: as the name is not bound,
\* NameError is raised inside the try and the call returns [] without
\* storing anything.
FetchRequestSucceeds ==
    /\ Len(returned) < MaxCalls
    /\ ~GetCached(catalog, skip_cache, "codeforces").hit
    /\ \E users \in ApiUsers :
           IF TqdmDefined
           THEN LET normalised == Normalised(users, limit)
                IN  /\ catalog' = SetCachedToday(catalog, skip_cache,
                                                 "codeforces", normalised)
                    /\ returned' = Append(returned, FirstN(normalised, limit))
           ELSE /\ catalog' = catalog
                /\ returned' = Append(returned, <<>>)
    /\ UNCHANGED <<skip_cache, limit, resolverVars, normVars, statVars,
                   prev_ratings, identities, ranked_entities, scoreVars>>

NextFetch ==
    \/ FetchFromCache
    \/ FetchRequestFails
    \/ FetchRequestSucceeds

InitFetch ==
    /\ catalog \in FetchCatalogs
    /\ skip_cache \in BOOLEAN
    /\ limit \in Limits
    /\ returned = <<>>
    /\ combined_raw = <<>>
    /\ ratings_by_src = EmptyDict
    /\ percentile_map = EmptyDict
    /\ total_in_src = EmptyDict
    /\ npc = "idle"
    /\ TailIdle
    /\ ScoreIdle
    /\ ResolverIdle

SpecFetch == InitFetch /\ [][NextFetch]_vars

SpecNorm == InitNorm /\ [][NextNorm]_vars

----------------------------------------------------------------------------
(* Vocabulary of the properties of resolve_entities. *)

\* the record the last iteration processed
LastRecord == entities[Len(entities)]

\* an iteration has been taken in this step
Stepped == entities' # entities

\* the record this step processes
StepRecord == entities'[Len(entities')]

\* the identities, before the step, whose name the step's record duplicates
StepDups ==
    {i \in 1..Len(resolved) : Duplicate(StepRecord["name"], resolved[i]["name"])}

MinOf(S) == CHOOSE i \in S : \A j \in S : i <= j

\* The input replayed without the resolver: for each record of `ents` the
\* index of the record that created the identity it belongs to (its own
\* index when it duplicates no earlier creating record).
RECURSIVE OwnersFrom(_, _)
OwnersFrom(ents, owners) ==
    IF Len(owners) = Len(ents) THEN owners
    ELSE LET k == Len(owners) + 1
             hits == {j \in 1..(k - 1) :
                         /\ owners[j] = j
                         /\ Duplicate(ents[k]["name"], ents[j]["name"])}
         IN  OwnersFrom(ents, Append(owners, IF hits = {} THEN k ELSE MinOf(hits)))

Owners(ents) == OwnersFrom(ents, <<>>)

\* the records that created an identity
Creators(owners) == {k \in 1..Len(owners) : owners[k] = k}

\* the position in the resolved list of the identity record c created
PositionOf(owners, c) == Cardinality({j \in Creators(owners) : j <= c})

\* the records merged into the identity record c created, c included
MembersOf(owners, c) == {k \in 1..Len(owners) : owners[k] = c}

\* the names of a list are pairwise non-duplicate
PairwiseDistinct(ents) ==
    \A j, k \in 1..Len(ents) :
        j # k => ~Duplicate(ents[j]["name"], ents[k]["name"])

----------------------------------------------------------------------------
(* C1: first match wins.  A record that duplicates the names of existing   *)
(* identities changes the earliest-created of them and no other, and the   *)
(* list keeps its length; when the merge completes and the record has a    *)
(* source and a handle, that identity holds the record's handle.  A record *)
(* that duplicates none appends exactly one identity, of its own name.     *)
C1_Step ==
    Stepped =>
        IF StepDups = {}
        THEN /\ Len(resolved') = Len(resolved) + 1
             /\ SubSeq(resolved', 1, Len(resolved)) = resolved
             /\ resolved'[Len(resolved')]["name"] = StepRecord["name"]
        ELSE /\ Len(resolved') = Len(resolved)
             /\ \A i \in 1..Len(resolved) :
                    i # MinOf(StepDups) => resolved'[i] = resolved[i]
             /\ (rpc' = "loop" /\ HasSourceAndHandle(StepRecord)) =>
                    resolved'[MinOf(StepDups)]["handles"][StepRecord["source"]]
                        = StepRecord["handle"]

\* C1: every step of resolve_entities is a first-match-wins step.
C1_FirstMatchWins == [][C1_Step]_vars

\* a record that duplicated both of two identities went into the first
C1_Witness ==
    /\ rpc = "loop"
    /\ Len(entities) = 3
    /\ Len(resolved) = 2
    /\ Duplicate(LastRecord["name"], resolved[1]["name"])
    /\ Duplicate(LastRecord["name"], resolved[2]["name"])
    /\ HasSourceAndHandle(LastRecord)
    /\ resolved[1]["handles"][LastRecord["source"]] = LastRecord["handle"]
    /\ LastRecord["source"] \notin DOMAIN resolved[2]["handles"]

----------------------------------------------------------------------------
(* C2: on a merge of a record that has a rating and a source into an       *)
(* identity that has a rating, the identity takes the record's rating and  *)
(* source when the record's rating is strictly greater than the stored     *)
(* one, and keeps both otherwise.                                          *)
C2_Step ==
    (/\ Stepped
     /\ StepDups # {}
     /\ HasKey(StepRecord, "rating")
     /\ HasKey(StepRecord, "source")
     /\ HasKey(resolved[MinOf(StepDups)], "rating")) =>
        LET old == resolved[MinOf(StepDups)]
            new == resolved'[MinOf(StepDups)]
        IN  IF StepRecord["rating"] > old["rating"]
            THEN /\ new["rating"] = StepRecord["rating"]
                 /\ new["source"] = StepRecord["source"]
            ELSE /\ new["rating"] = old["rating"]
                 /\ Get(new, "source", None) = Get(old, "source", None)

\* C2: every merge promotes the identity exactly when the record's rating is
\* strictly greater.
C2_PromoteIffGreater == [][C2_Step]_vars

\* a record rated 1500 on kaggle took over an identity rated 1200 on
\* codeforces, and a later record rated 1200 left it as it was
C2_Witness ==
    /\ rpc = "loop"
    /\ Len(entities) = 3
    /\ Len(resolved) = 1
    /\ entities[1] = Rec(entities[1]["name"], 1200, "codeforces", "al")
    /\ entities[2] = Rec(entities[2]["name"], 1500, "kaggle", "bo")
    /\ entities[3] = Rec(entities[3]["name"], 1200, "codeforces", "al")
    /\ resolved[1]["rating"] = 1500
    /\ resolved[1]["source"] = "kaggle"
    /\ resolved[1]["handles"] = Put(Put(EmptyDict, "codeforces", "al"), "kaggle", "bo")

----------------------------------------------------------------------------
(* C3: after every merge step of a record with a source and a handle the   *)
(* identity's handles map sends the record's source to its handle, whether *)
(* or not the record won on rating; the merge step of a record that lacks  *)
(* a source or a handle leaves the handles map as it was.                  *)
C3_Step ==
    (Stepped /\ StepDups # {}) =>
        LET old == resolved[MinOf(StepDups)]
            new == resolved'[MinOf(StepDups)]
        IN  IF HasSourceAndHandle(StepRecord)
            THEN /\ rpc' = "loop"
                 /\ StepRecord["source"] \in DOMAIN new["handles"]
                 /\ new["handles"][StepRecord["source"]] = StepRecord["handle"]
            ELSE new["handles"] = old["handles"]

\* C3: every merge records the record's handle under its source, or leaves
\* the handles map alone when the record lacks either.
C3_HandleRecorded == [][C3_Step]_vars

\* a record that lost on rating left its handle, and a record with no
\* usable handle was merged after it
C3_Witness ==
    /\ rpc = "loop"
    /\ Len(entities) = 3
    /\ Len(resolved) = 1
    /\ HasSourceAndHandle(entities[1])
    /\ HasSourceAndHandle(entities[2])
    /\ entities[2]["rating"] < entities[1]["rating"]
    /\ entities[2]["source"] # entities[1]["source"]
    /\ ~HasSourceAndHandle(entities[3])
    /\ resolved[1]["handles"][entities[2]["source"]] = entities[2]["handle"]
    /\ Cardinality(DOMAIN resolved[1]["handles"]) = 2

----------------------------------------------------------------------------
(* C4, as claimed: after the merge of a record with a source and a handle  *)
(* the handles map holds every entry it held before, unchanged, and the    *)
(* record's entry.                                                         *)
C4_Step_Claimed ==
    (Stepped /\ StepDups # {} /\ HasSourceAndHandle(StepRecord)) =>
        LET old == resolved[MinOf(StepDups)]["handles"]
            new == resolved'[MinOf(StepDups)]["handles"]
        IN  /\ \A s \in DOMAIN old : s \in DOMAIN new /\ new[s] = old[s]
            /\ StepRecord["source"] \in DOMAIN new
            /\ new[StepRecord["source"]] = StepRecord["handle"]

\* C4, as claimed: no merge removes or changes an entry of the handles map.
C4_HandlesSuperset_Claimed == [][C4_Step_Claimed]_vars

(* C4, amended: after the merge of a record with a source and a handle the *)
(* handles map has the sources it had before and the record's source; it   *)
(* sends the record's source to the record's handle, replacing the handle  *)
(* stored under that source if there was one, and every other source to    *)
(* the handle it had before.                                               *)
C4_Step ==
    (Stepped /\ StepDups # {} /\ HasSourceAndHandle(StepRecord)) =>
        LET old == resolved[MinOf(StepDups)]["handles"]
            new == resolved'[MinOf(StepDups)]["handles"]
        IN  /\ DOMAIN new = DOMAIN old \cup {StepRecord["source"]}
            /\ \A s \in DOMAIN old :
                   s # StepRecord["source"] => new[s] = old[s]
            /\ new[StepRecord["source"]] = StepRecord["handle"]

\* C4, amended: every merge keeps the entries of the other sources and sets
\* the entry of the record's source.
C4_HandlesKeptPerSource == [][C4_Step]_vars

\* an identity with handles on two sources after the merge of a second
\* handle on one of them
C4_Witness ==
    /\ rpc = "loop"
    /\ Len(entities) = 3
    /\ Len(resolved) = 1
    /\ \A k \in 1..3 : HasSourceAndHandle(entities[k])
    /\ entities[1]["source"] # entities[2]["source"]
    /\ entities[3]["source"] = entities[1]["source"]
    /\ entities[3]["handle"] # entities[1]["handle"]
    /\ resolved[1]["handles"][entities[3]["source"]] = entities[3]["handle"]
    /\ resolved[1]["handles"][entities[2]["source"]] = entities[2]["handle"]

----------------------------------------------------------------------------
(* C5: when resolve_entities has processed its input, the rating of every  *)
(* identity is the greatest rating of the records merged into it, the      *)
(* creating record included, and its source is the source of one of those  *)
(* records that has that rating.                                           *)
C5_RatingIsMax ==
    rpc = "loop" =>
      LET owners == Owners(entities)
      IN  \A c \in Creators(owners) :
            LET id == resolved[PositionOf(owners, c)]
                rated == {k \in MembersOf(owners, c) :
                             HasKey(entities[k], "rating")}
            IN  rated # {} =>
                    /\ HasKey(id, "rating")
                    /\ \A k \in rated : entities[k]["rating"] <= id["rating"]
                    /\ \E k \in rated :
                           /\ entities[k]["rating"] = id["rating"]
                           /\ Get(entities[k], "source", None)
                                  = Get(id, "source", None)

\* an identity made of three records whose greatest rating came second
C5_Witness ==
    /\ rpc = "loop"
    /\ Len(entities) = 3
    /\ Len(resolved) = 1
    /\ entities[1] = Rec(entities[1]["name"], 1200, "codeforces", "al")
    /\ entities[2] = Rec(entities[2]["name"], 1500, "kaggle", "bo")
    /\ entities[3] = Rec(entities[3]["name"], 1200, "kaggle", "al")
    /\ resolved[1]["rating"] = 1500
    /\ resolved[1]["source"] = "kaggle"

----------------------------------------------------------------------------
(* C6: a record that duplicates no identity appends an identity that has   *)
(* the record's keys and values and a handles map, {source: handle} when   *)
(* the record has both and empty otherwise; so the result for an input of  *)
(* pairwise non-duplicate names has one such identity per record, in input *)
(* order.                                                                  *)
InitialisedFrom(id, ent) ==
    /\ DOMAIN id = DOMAIN ent \cup {"handles"}
    /\ \A k \in DOMAIN ent : id[k] = ent[k]
    /\ IF Truthy(Get(ent, "source", None)) /\ Truthy(Get(ent, "handle", None))
       THEN id["handles"] = (ent["source"] :> ent["handle"])
       ELSE id["handles"] = <<>>

C6_Step ==
    (Stepped /\ StepDups = {}) =>
        /\ Len(resolved') = Len(resolved) + 1
        /\ InitialisedFrom(resolved'[Len(resolved')], StepRecord)

C6_Result ==
    (rpc = "loop" /\ PairwiseDistinct(entities)) =>
        /\ Len(resolved) = Len(entities)
        /\ \A k \in 1..Len(entities) : InitialisedFrom(resolved[k], entities[k])

\* C6: every no-match step appends an identity initialised from the record,
\* and an input of pairwise non-duplicate names gives one identity per
\* record in input order.
C6_NewIdentity == [][C6_Step]_vars /\ []C6_Result

\* two records of non-duplicate names, one with a source and a handle and
\* one with a name only (tests/test_resolution.py), each its own identity
C6_Witness ==
    /\ rpc = "loop"
    /\ Len(entities) = 2
    /\ Len(resolved) = 2
    /\ HasSourceAndHandle(entities[1])
    /\ DOMAIN entities[2] = {"name"}
    /\ resolved[1]["handles"] = (entities[1]["source"] :> entities[1]["handle"])
    /\ resolved[2]["handles"] = <<>>

----------------------------------------------------------------------------
(* C7: resolution idempotence.  For an input whose records all have a      *)
(* source and a handle, resolving the expansion of the result (one record  *)
(* for each entry of each identity's handles map, with the identity's name *)
(* and rating) gives as many identities as the result has.                 *)
RECURSIVE ExpandHandles(_, _)
ExpandHandles(id, sources) ==
    IF sources = {} THEN <<>>
    ELSE LET s == CHOOSE x \in sources : TRUE
         IN  <<Rec(id["name"], id["rating"], s, id["handles"][s])>>
                 \o ExpandHandles(id, sources \ {s})

RECURSIVE Expand(_)
Expand(res) ==
    IF res = <<>> THEN <<>>
    ELSE ExpandHandles(Head(res), DOMAIN Head(res)["handles"])
             \o Expand(Tail(res))

C7_Idempotent ==
    (rpc = "loop" /\ \A k \in 1..Len(entities) : HasSourceAndHandle(entities[k])) =>
        LET again == resolve_entities(Expand(resolved))
        IN  /\ ~again.raised
            /\ Len(again.resolved) = Len(resolved)

\* two identities, one of them with two handles, so that the expansion has
\* three records
C7_Witness ==
    /\ rpc = "loop"
    /\ Len(entities) = 3
    /\ \A k \in 1..3 : HasSourceAndHandle(entities[k])
    /\ Len(resolved) = 2
    /\ Len(Expand(resolved)) = 3
    /\ Len(resolve_entities(Expand(resolved)).resolved) = 2

----------------------------------------------------------------------------
(* C8: identity lifecycle.  No step of resolve_entities removes or moves   *)
(* an identity: the list only grows at its end and the name at each place  *)
(* stays; the name of every identity is the name of the record that        *)
(* created it, whatever was merged into it since.                          *)
C8_Step ==
    /\ Len(resolved') >= Len(resolved)
    /\ \A i \in 1..Len(resolved) : resolved'[i]["name"] = resolved[i]["name"]

C8_Names ==
    LET owners == Owners(entities)
    IN  /\ Len(resolved) = Cardinality(Creators(owners))
        /\ \A c \in Creators(owners) :
               resolved[PositionOf(owners, c)]["name"] = entities[c]["name"]

\* C8: no step removes, moves or renames an identity, and every identity
\* has the name of the record that created it.
C8_Lifecycle == [][C8_Step]_vars /\ []C8_Names

\* an identity that absorbed two records of other names, the second one
\* higher rated, and kept the name of its first record
C8_Witness ==
    /\ rpc = "loop"
    /\ Len(entities) = 3
    /\ Len(resolved) = 1
    /\ entities[2]["name"] # entities[1]["name"]
    /\ entities[3]["name"] # entities[1]["name"]
    /\ HasKey(entities[1], "rating") /\ HasKey(entities[2], "rating")
    /\ entities[2]["rating"] > entities[1]["rating"]
    /\ HasKey(entities[2], "source")
    /\ resolved[1]["name"] = entities[1]["name"]

----------------------------------------------------------------------------
(* Vocabulary of the properties of the normaliser. *)

\* ent.get("rating", 0.0)
RatingOf(ent) == Get(ent, "rating", 0)

\* the records of the source of record k
GroupOf(k) ==
    {j \in 1..Len(combined_raw) :
        combined_raw[j]["source"] = combined_raw[k]["source"]}

\* the places, counted from 0, that the rating of record k takes in the
\* descending order of its group: after the greater ratings
RanksOf(k) ==
    LET greater == Cardinality({j \in GroupOf(k) :
                       RatingOf(combined_raw[j]) > RatingOf(combined_raw[k])})
        tied == Cardinality({j \in GroupOf(k) :
                       RatingOf(combined_raw[j]) = RatingOf(combined_raw[k])})
    IN  greater..(greater + tied - 1)

\* 1 - i / (n - 1), and 1 in a group of one
PercentileAt(i, n) == IF n = 1 THEN <<1, 1>> ELSE <<n - 1 - i, n - 1>>

----------------------------------------------------------------------------
(* C9: percentile invariant.  After the annotation every norm lies in      *)
(* [0, 1]; a record whose rating is the highest of its source has norm 1,  *)
(* and so has the only record of a source.                                 *)
C9_Percentile ==
    npc = "annotated" =>
        \A k \in 1..Len(combined_raw) :
            LET norm == combined_raw[k]["norm"]
            IN  /\ norm[2] > 0
                /\ FracLeq(<<0, 1>>, norm)
                /\ FracLeq(norm, <<1, 1>>)
                /\ (\A j \in GroupOf(k) :
                        RatingOf(combined_raw[j]) <= RatingOf(combined_raw[k]))
                       => FracEq(norm, <<1, 1>>)
                /\ Cardinality(GroupOf(k)) = 1 => FracEq(norm, <<1, 1>>)

\* two records share the highest rating of a source of three, and another
\* source has one record
C9_Witness ==
    /\ npc = "annotated"
    /\ Len(combined_raw) = 4
    /\ \A k \in 1..3 : combined_raw[k]["source"] = "codeforces"
    /\ combined_raw[4]["source"] = "kaggle"
    /\ RatingOf(combined_raw[1]) = 1000 /\ RatingOf(combined_raw[3]) = 1000
    /\ RatingOf(combined_raw[2]) = 800
    /\ FracEq(combined_raw[1]["norm"], <<1, 1>>)
    /\ FracEq(combined_raw[3]["norm"], <<1, 1>>)
    /\ FracEq(combined_raw[2]["norm"], <<0, 1>>)
    /\ FracEq(combined_raw[4]["norm"], <<1, 1>>)

----------------------------------------------------------------------------
(* C10: tie handling.  Two records of one source with equal ratings have   *)
(* equal norms, and the norm of a record is the greatest of 1 - i/(n - 1)  *)
(* over the places i its rating takes in the descending order of the n     *)
(* ratings of its source, whatever the order of the input.                 *)
C10_Ties ==
    npc = "annotated" =>
        \A k \in 1..Len(combined_raw) :
            LET norm == combined_raw[k]["norm"]
                n == Cardinality(GroupOf(k))
            IN  /\ \A j \in GroupOf(k) :
                       RatingOf(combined_raw[j]) = RatingOf(combined_raw[k])
                           => combined_raw[j]["norm"] = norm
                /\ \E i \in RanksOf(k) : FracEq(norm, PercentileAt(i, n))
                /\ \A i \in RanksOf(k) : FracLeq(PercentileAt(i, n), norm)

\* ratings [1000, 800, 800] of one source have norms [1.0, 0.5, 0.5]
C10_Witness ==
    /\ npc = "annotated"
    /\ Len(combined_raw) = 3
    /\ \A k \in 1..3 : combined_raw[k]["source"] = "codeforces"
    /\ RatingOf(combined_raw[1]) = 1000
    /\ RatingOf(combined_raw[2]) = 800
    /\ RatingOf(combined_raw[3]) = 800
    /\ FracEq(combined_raw[1]["norm"], <<1, 1>>)
    /\ FracEq(combined_raw[2]["norm"], <<1, 2>>)
    /\ FracEq(combined_raw[3]["norm"], <<1, 2>>)

----------------------------------------------------------------------------
(* Vocabulary of the properties of the per-country normaliser. *)

\* the records of the (source, country) bucket of record k, which has a
\* country
GeoGroupOf(k) ==
    {j \in 1..Len(combined_raw) :
        /\ HasCountry(combined_raw[j])
        /\ combined_raw[j]["source"] = combined_raw[k]["source"]
        /\ combined_raw[j]["country"] = combined_raw[k]["country"]}

\* the places, counted from 0, that the rating of record k takes in the
\* descending order of its bucket
GeoRanksOf(k) ==
    LET greater == Cardinality({j \in GeoGroupOf(k) :
                       RatingOf(combined_raw[j]) > RatingOf(combined_raw[k])})
        tied == Cardinality({j \in GeoGroupOf(k) :
                       RatingOf(combined_raw[j]) = RatingOf(combined_raw[k])})
    IN  greater..(greater + tied - 1)

----------------------------------------------------------------------------
(* C11: after the annotation the geo_norm of a record without a country is *)
(* 0; the geo_norm of a record with a country is the greatest of           *)
(* 1 - i/(n - 1) over the places i its rating takes in the descending      *)
(* order of the n ratings of its (source, country) bucket, 1 for the only  *)
(* or the top record of the bucket; every geo_norm lies in [0, 1].         *)
C11_GeoNorm ==
    npc = "annotated" =>
        \A k \in 1..Len(combined_raw) :
            LET geo_norm == combined_raw[k]["geo_norm"]
                n == Cardinality(GeoGroupOf(k))
            IN  /\ geo_norm[2] > 0
                /\ FracLeq(<<0, 1>>, geo_norm)
                /\ FracLeq(geo_norm, <<1, 1>>)
                /\ ~HasCountry(combined_raw[k]) => FracEq(geo_norm, <<0, 1>>)
                /\ HasCountry(combined_raw[k]) =>
                       /\ \E i \in GeoRanksOf(k) :
                              FracEq(geo_norm, PercentileAt(i, n))
                       /\ \A i \in GeoRanksOf(k) :
                              FracLeq(PercentileAt(i, n), geo_norm)
                       /\ (\A j \in GeoGroupOf(k) :
                               RatingOf(combined_raw[j])
                                   <= RatingOf(combined_raw[k]))
                              => FracEq(geo_norm, <<1, 1>>)
                       /\ n = 1 => FracEq(geo_norm, <<1, 1>>)

\* one source: two records of one country, the only record of another
\* country with the lower rating, and a top-rated record without a country
C11_Witness ==
    /\ npc = "annotated"
    /\ Len(combined_raw) = 4
    /\ \A k \in 1..4 : combined_raw[k]["source"] = "codeforces"
    /\ combined_raw[1]["country"] = "US" /\ combined_raw[1]["rating"] = 1000
    /\ combined_raw[2]["country"] = "US" /\ combined_raw[2]["rating"] = 800
    /\ combined_raw[3]["country"] = "GB" /\ combined_raw[3]["rating"] = 800
    /\ combined_raw[4]["country"] = None /\ combined_raw[4]["rating"] = 1000
    /\ FracEq(combined_raw[1]["geo_norm"], <<1, 1>>)
    /\ FracEq(combined_raw[2]["geo_norm"], <<0, 1>>)
    /\ FracEq(combined_raw[3]["geo_norm"], <<1, 1>>)
    /\ FracEq(combined_raw[4]["geo_norm"], <<0, 1>>)

----------------------------------------------------------------------------
(* Vocabulary of the properties of the statistics. *)

\* two quotients by a standard deviation are the same number
QuotEq(x, y) ==
    /\ FracEq(x.num, y.num)
    /\ x.num[1] = 0 \/ FracEq(x.over, y.over)

\* the ratings of the fetched records of a source
FetchedRatings(src) == RatingsOf(combined_raw, src)

\* all the ratings of a source are equal
ConstantRatings(src) ==
    \A j, k \in 1..Len(combined_raw) :
        combined_raw[j]["source"] = src /\ combined_raw[k]["source"] = src
            => RatingOf(combined_raw[j]) = RatingOf(combined_raw[k])

\* the identities whose rating comes from the given source
IdentitiesOf(src) == {i \in 1..Len(identities) : identities[i]["source"] = src}

----------------------------------------------------------------------------
(* C12: z-score invariant.  When the z-scores are stored, no source has a  *)
(* standard deviation of 0, and a source all of whose ratings are equal    *)
(* has the standard deviation 1.0 and rating_z = 0 for every identity of   *)
(* that source.                                                            *)
C12_ZeroVariance ==
    npc = "zscored" =>
        \A src \in DOMAIN ratings_by_src :
            /\ HasKey(source_stats, src)
            /\ source_stats[src].std[1] # 0
            /\ \A i \in IdentitiesOf(src) : identities[i]["rating_z"].over[1] # 0
            /\ ConstantRatings(src) =>
                   /\ FracEq(source_stats[src].std, <<1, 1>>)
                   /\ \A i \in IdentitiesOf(src) :
                          QuotEq(identities[i]["rating_z"], Zero)

\* two identities of one source with the same non-zero rating, whose
\* z-score is computed by the division
C12_Witness ==
    /\ npc = "zscored"
    /\ Len(combined_raw) = 3
    /\ \A k \in 1..2 : /\ combined_raw[k]["source"] = "codeforces"
                       /\ combined_raw[k]["rating"] = 12
    /\ combined_raw[3]["source"] = "kaggle"
    /\ ConstantRatings("codeforces")
    /\ Cardinality(IdentitiesOf("codeforces")) = 2
    /\ \A i \in IdentitiesOf("codeforces") :
           /\ identities[i]["rating"] = 12
           /\ identities[i]["rating_z"] = Quot(<<0, 2>>, <<1, 1>>)

----------------------------------------------------------------------------
(* C13, as claimed: when the z-scores are stored, the rating_z of every    *)
(* identity whose source has at least one rating is (rating - mean) / std  *)
(* of that source, whatever the rating, a rating of 0 included, and the    *)
(* rating_z of an identity whose source has no rating is 0.                *)
C13_RatingZ_Claimed ==
    npc = "zscored" =>
        \A i \in 1..Len(identities) :
            LET src == identities[i]["source"]
                values == FetchedRatings(src)
                mean == <<Sum(values), Len(values)>>
            IN  IF values # <<>>
                THEN QuotEq(identities[i]["rating_z"],
                            Quot(FracSub(<<identities[i]["rating"], 1>>, mean),
                                 source_stats[src].std))
                ELSE QuotEq(identities[i]["rating_z"], Zero)

----------------------------------------------------------------------------
(* Vocabulary of the properties of the momentum. *)

\* what cache.set_cached stored for a source on the day before: the list
\* under catalog[yesterday][source], empty if there is none
StoredYesterday(src) ==
    LET cat == LoadCatalog(catalog)
        pos == KeyPosition(cat, Yesterday)
    IN  IF pos # 0 /\ cat[pos][2].kind = "dict" /\ HasKey(cat[pos][2].items, src)
        THEN cat[pos][2].items[src]
        ELSE <<>>

\* the places of the handle of a record in the snapshot of its source
SnapshotPlaces(ent) ==
    LET snap == StoredYesterday(ent["source"])
    IN  {j \in 1..Len(snap) : snap[j]["handle"] = ent["handle"]}

\* the catalog is not JSON, or one of its entries is not an object
Malformed(file) ==
    \/ file = Unreadable
    \/ \E i \in 1..Len(LoadCatalog(file)) : LoadCatalog(file)[i][2].kind # "dict"

----------------------------------------------------------------------------
(* C14, as claimed: with the catalog as the cache stores it, after the     *)
(* momentum loop every record has a delta_sigma; the delta_sigma of a      *)
(* record whose (source, handle) is in the snapshot of the day before is   *)
(* (today's rating - yesterday's rating) / today's standard deviation of   *)
(* its source, and the delta_sigma of any other record is 0.               *)
C14_Momentum_Claimed ==
    (npc = "momentum" /\ catalog \in CacheCatalogs \cup {NoCatalog}) =>
        \A k \in 1..Len(combined_raw) :
            LET ent == combined_raw[k]
                snap == StoredYesterday(ent["source"])
                places == SnapshotPlaces(ent)
            IN  /\ HasKey(ent, "delta_sigma")
                /\ IF places # {}
                   THEN \E j \in places :
                            QuotEq(ent["delta_sigma"],
                                   Quot(<<RatingOf(ent) - snap[j]["rating"], 1>>,
                                        source_stats[ent["source"]].std))
                   ELSE QuotEq(ent["delta_sigma"], Zero)

----------------------------------------------------------------------------
(* C15, as claimed: with a catalog that is not JSON or that has an entry   *)
(* that is not an object, at any position, the momentum loop ends with     *)
(* delta_sigma = 0 in every record, as it does without a catalog.          *)
C15_Malformed_Claimed ==
    (npc = "momentum" /\ Malformed(catalog)) =>
        \A k \in 1..Len(combined_raw) :
            /\ HasKey(combined_raw[k], "delta_sigma")
            /\ QuotEq(combined_raw[k]["delta_sigma"], Zero)

----------------------------------------------------------------------------
(* Vocabulary of the properties of the score. *)

\* the scored identity with one platform more: one more entry in handles
\* and the versatility orchestrate derives from it
OnePlatformMore(p) ==
    LET handles == Put(p["handles"], "another", "al")
    IN  Put(Put(p, "handles", handles), "versatility", Cardinality(DOMAIN handles))

\* base + momentum + geo_bonus + rising_bonus, what the versatility factor
\* multiplies
Multiplied(t) == t.base_score + t.momentum + t.geo_bonus + t.rising_bonus

----------------------------------------------------------------------------
(* C16: score composition.  The score returned is                          *)
(* (base + momentum + geo_bonus + rising_bonus) * versatility_factor       *)
(* + multi_source_bonus + rank_bonus, with the flat bonuses outside the    *)
(* multiplier, and versatility_factor is                                   *)
(* 1 + min(0.25, 0.1 * (versatility - 1)): 1.0 at versatility 1, 1.1 at 2, *)
(* 1.2 at 3 and 1.25 from 4 on.                                            *)
C16_Composition ==
    spc = "scored" =>
        LET t == scored.terms
            versatility == profile["versatility"]
        IN  /\ scored.score =
                   Mul(t.base_score + t.momentum + t.geo_bonus + t.rising_bonus,
                       t.versatility_factor)
                       + t.multi_source_bonus + t.rank_bonus
            /\ profile["score"] = scored.score
            /\ t.versatility_factor = 1000 + Min(250, 100 * (versatility - 1))
            /\ versatility = 1 => t.versatility_factor = 1000
            /\ versatility = 2 => t.versatility_factor = 1100
            /\ versatility = 3 => t.versatility_factor = 1200
            /\ versatility >= 4 => t.versatility_factor = 1250

\* an AtCoder identity on three platforms, second of three, with
\* delta_sigma 2.0, geo_norm 0.5 and rating_z 0: (500 + 100 + 25 + 50) * 1.2
\* + 50 + 199.8
C16_Witness ==
    /\ spc = "scored"
    /\ profile["versatility"] = 3
    /\ profile["source"] = "atcoder"
    /\ HasKey(profile, "rank") /\ profile["total_in_src"] = 3
    /\ HasKey(profile, "delta_sigma") /\ profile["delta_sigma"] = 2000
    /\ profile["geo_norm"] = 500
    /\ profile["rating_z"] = 0
    /\ scored.terms.multi_source_bonus = 50000
    /\ scored.terms.rank_bonus = 199800
    /\ scored.score = 1059800

----------------------------------------------------------------------------
(* C17: the rising-star bonus is 50 when delta_sigma is greater than 1.5   *)
(* and 0 otherwise: 0 at delta_sigma 1.5 and 1.49 and for a profile        *)
(* without delta_sigma, 50 at delta_sigma 2.0.                             *)
C17_RisingBonus ==
    spc = "scored" =>
        LET rising_bonus == scored.terms.rising_bonus
        IN  /\ rising_bonus \in {0, 50000}
            /\ rising_bonus = 50000
                   <=> (HasKey(profile, "delta_sigma") /\ profile["delta_sigma"] > 1500)
            /\ ~HasKey(profile, "delta_sigma") => rising_bonus = 0
            /\ HasKey(profile, "delta_sigma") =>
                   /\ profile["delta_sigma"] = 1500 => rising_bonus = 0
                   /\ profile["delta_sigma"] = 1490 => rising_bonus = 0
                   /\ profile["delta_sigma"] = 2000 => rising_bonus = 50000

\* a profile with delta_sigma 1.5 is scored without the bonus, although
\* its momentum is 75
C17_Witness ==
    /\ spc = "scored"
    /\ HasKey(profile, "delta_sigma")
    /\ profile["delta_sigma"] = 1500
    /\ scored.terms.momentum = 75000
    /\ scored.terms.rising_bonus = 0

----------------------------------------------------------------------------
(* C18, as claimed: for every scored profile of versatility 1, the same    *)
(* profile on one platform more (versatility 2), with the same rating_z,   *)
(* delta_sigma, geo_norm, rank and source, has a strictly greater score.   *)
C18_Versatility_Claimed ==
    (spc = "scored" /\ profile["versatility"] = 1) =>
        ScoreOf(OnePlatformMore(profile)) > scored.score

(* C18, amended: for every scored profile of versatility 1, the same       *)
(* profile on one platform more has the score plus                         *)
(* 0.1 * (base + momentum + geo_bonus + rising_bonus) + 50, which is a     *)
(* strict increase exactly when that sum is greater than -500.             *)
C18_Versatility ==
    (spc = "scored" /\ profile["versatility"] = 1) =>
        LET more == ScoreOf(OnePlatformMore(profile))
            sum == Multiplied(scored.terms)
        IN  /\ more = scored.score + Mul(100, sum) + 50000
            /\ more > scored.score <=> sum > -500000

\* a profile with rating_z 0 and no momentum: the sum is 500, and one
\* platform more adds 0.1 * 500 + 50 to the score
C18_Witness ==
    /\ spc = "scored"
    /\ profile["versatility"] = 1
    /\ profile["rating_z"] = 0
    /\ HasKey(profile, "delta_sigma") /\ profile["delta_sigma"] = 0
    /\ profile["geo_norm"] = 0
    /\ Multiplied(scored.terms) = 500000
    /\ ScoreOf(OnePlatformMore(profile)) = scored.score + 100000

----------------------------------------------------------------------------
----------------------------------------------------------------------------
----------------------------------------------------------------------------
(* The rank bonus, the reason and the missing keys of a profile.           *)

\* interestingness_score has returned to its caller
Returned == spc = "returned"

\* the rank bonus has what it takes: the distinguished source, a rank and
\* a population of more than one
RankBonusApplies ==
    /\ Get(profile, "source", None) = "atcoder"
    /\ HasKey(profile, "rank") /\ profile["rank"] # 0
    /\ HasKey(profile, "total_in_src") /\ profile["total_in_src"] > 1

\* C21: the rank bonus is (total_in_src - rank + 1) / total_in_src * 300
\* for a profile of AtCoder with a rank and a total_in_src above 1, and 0
\* for a profile of another source or without a rank or a total_in_src.
C21_RankBonus ==
    Returned =>
        IF RankBonusApplies
        THEN scored.terms.rank_bonus * profile["total_in_src"]
                 = Float(profile["total_in_src"] - profile["rank"] + 1) * 300
        ELSE scored.terms.rank_bonus = 0

\* the third of four on AtCoder has been given (4 - 3 + 1) / 4 * 300 = 150
C21_Witness ==
    /\ Returned
    /\ RankBonusApplies
    /\ profile["rank"] = 3 /\ profile["total_in_src"] = 4
    /\ scored.terms.rank_bonus = Float(150)

\* the kinds of clause of a reason, in the order of reason_parts
ClauseOrder ==
    <<"rating", "z", "pct", "delta_sigma", "geo", "Rising star", "rank bonus",
      "first seen", "multi-platform">>

\* the place of a kind of clause in that order, 0 for an unknown kind
ClausePlace(c) ==
    IF \E i \in 1..Len(ClauseOrder) : ClauseOrder[i] = c
    THEN CHOOSE i \in 1..Len(ClauseOrder) : ClauseOrder[i] = c
    ELSE 0

\* the reason has a clause of the kind
HasClause(reason, c) == \E i \in 1..Len(reason) : reason[i] = c

\* the clauses of the reason are of known kinds and in the fixed order,
\* each kind once at most
InClauseOrder(reason) ==
    /\ \A i \in 1..Len(reason) : ClausePlace(reason[i]) # 0
    /\ \A i, j \in 1..Len(reason) :
           i < j => ClausePlace(reason[i]) < ClausePlace(reason[j])

\* the clauses of the terms of the score: the rating and the z-score or
\* the percentile always, any other one if and only if its term is not 0
TermClauses(reason) ==
    /\ Len(reason) >= 2
    /\ reason[1] = "rating"
    /\ reason[2] = IF HasKey(profile, "rating_z") THEN "z" ELSE "pct"
    /\ HasClause(reason, "delta_sigma") <=> scored.terms.momentum # 0
    /\ HasClause(reason, "geo") <=> scored.terms.geo_bonus # 0
    /\ HasClause(reason, "Rising star") <=> scored.terms.rising_bonus # 0
    /\ HasClause(reason, "rank bonus") <=> scored.terms.rank_bonus # 0
    /\ HasClause(reason, "multi-platform")
           <=> Get(profile, "versatility", 1) > 1

----------------------------------------------------------------------------
(* The ranking. *)

\* orchestrate has ranked the identities
Ranked == npc = "ranked"

\* the creation order of an identity of the ranking: its place among the
\* resolved identities, which differ by their names
CreatedAs(e) == CHOOSE i \in 1..Len(identities) : identities[i] = e

\* the identities the ranking leaves out
LeftOut ==
    {i \in 1..Len(identities) :
        \A k \in 1..Len(ranked_entities) : ranked_entities[k] # identities[i]}

\* C23: the ranking is the identities by score descending, those of equal
\* score in creation order, cut to the first 25; no identity left out has
\* a higher score than one that is in, nor the same score and an earlier
\* creation.
C23_Ranking ==
    Ranked =>
        /\ Len(ranked_entities) = Min(TopN, Len(identities))
        /\ \A k \in 1..Len(ranked_entities) :
               \E i \in 1..Len(identities) : identities[i] = ranked_entities[k]
        /\ \A k, l \in 1..Len(ranked_entities) :
               k < l =>
                   \/ ranked_entities[k]["score"] > ranked_entities[l]["score"]
                   \/ /\ ranked_entities[k]["score"] = ranked_entities[l]["score"]
                      /\ CreatedAs(ranked_entities[k]) < CreatedAs(ranked_entities[l])
        /\ \A i \in LeftOut : \A k \in 1..Len(ranked_entities) :
               \/ ranked_entities[k]["score"] > identities[i]["score"]
               \/ /\ ranked_entities[k]["score"] = identities[i]["score"]
                  /\ CreatedAs(ranked_entities[k]) < i

\* more than 25 identities were ranked, one left out has the score of one
\* that is in, and two of the ranking share a score
C23_Witness ==
    /\ Ranked
    /\ Len(identities) > TopN
    /\ \E i \in LeftOut : identities[i]["score"] = ranked_entities[TopN]["score"]
    /\ \E k \in 1..(TopN - 1) :
           ranked_entities[k]["score"] = ranked_entities[k + 1]["score"]
    /\ ranked_entities[1]["score"] > ranked_entities[TopN]["score"]

----------------------------------------------------------------------------
(* Profiles without their optional keys. *)

\* the keys of the profile of test_scoring.py
BasicKeys == {"name", "rating", "source", "norm"}

\* C24: interestingness_score returns a number and a reason of clauses
\* for a profile without rank, country, first_seen, rating_z, handles,
\* versatility, delta_sigma or geo_norm, and a missing key counts as the
\* neutral value: no geography bonus, no momentum and no rising-star bonus,
\* no rank bonus, no multi-source bonus, a versatility factor of 1 and the
\* percentile as the base score.
C24_MissingFields ==
    Returned =>
        /\ scored.score \in Int
        /\ Len(scored.reason) >= 2
        /\ \A i \in 1..Len(scored.reason) : ClausePlace(scored.reason[i]) # 0
        /\ ~HasKey(profile, "geo_norm") => scored.terms.geo_bonus = 0
        /\ ~HasKey(profile, "delta_sigma") =>
               scored.terms.momentum = 0 /\ scored.terms.rising_bonus = 0
        /\ ~HasKey(profile, "rank") => scored.terms.rank_bonus = 0
        /\ ~HasKey(profile, "handles") => scored.terms.multi_source_bonus = 0
        /\ ~HasKey(profile, "versatility") =>
               scored.terms.versatility_factor = Float(1)
        /\ ~HasKey(profile, "rating_z") =>
               scored.terms.base_score = profile["norm"] * 1000
        /\ DOMAIN profile = BasicKeys =>
               scored.score = profile["norm"] * 1000

\* the profile of test_scoring.py, with a percentile of 0.3, has scored 300
C24_Witness ==
    /\ Returned
    /\ DOMAIN profile = BasicKeys
    /\ profile["source"] = "codeforces"
    /\ scored.score = Float(300)
    /\ scored.reason = <<"rating", "pct">>

----------------------------------------------------------------------------
(* Records with an empty handle. *)

\* the record has a handle, and it is empty
EmptyHandle(ent) == HasKey(ent, "handle") /\ ent["handle"] = ""

\* C25 as the specification states it: a record with an empty handle is
\* signalled to the caller at once, so that it is the last record consumed
\* and resolve_entities has raised.
C25_EmptyHandle_Claimed ==
    \A k \in 1..Len(entities) :
        EmptyHandle(entities[k]) => k = Len(entities) /\ rpc = "raised"

----------------------------------------------------------------------------
(* The calls of fetch_ratings of one day. *)

\* C26 as the specification states it: with the cache in use, two calls
\* in a row with the same limit return the same list, and the second
\* returns the payload of today the cache holds, cut to the limit.
C26_Idempotence_Claimed ==
    (~skip_cache /\ Len(returned) >= 2) =>
        /\ returned[1] = returned[2]
        /\ LET cached == GetCached(catalog, skip_cache, "codeforces")
           IN  cached.hit /\ returned[2] = FirstN(cached.data, limit)

----------------------------------------------------------------------------
(* The input of resolve_entities. *)

\* C27: an iteration of resolve_entities leaves every record consumed
\* before as it was, and the record it consumes as it was given: a record
\* of the input, without a handles key.
C27_InputUnchanged ==
    [][Stepped =>
           /\ Len(entities') = Len(entities) + 1
           /\ \A k \in 1..Len(entities) : entities'[k] = entities[k]
           /\ StepRecord \in RawRecords
           /\ ~HasKey(StepRecord, "handles")]_vars

\* the first record created an identity that a later record has promoted
\* to a higher rating and another source, and is as it was given
C27_Witness ==
    /\ Len(entities) >= 2
    /\ resolved[1]["name"] = entities[1]["name"]
    /\ HasKey(entities[1], "source")
    /\ entities[1]["rating"] = 1200 /\ resolved[1]["rating"] = 1500
    /\ resolved[1]["source"] # entities[1]["source"]
    /\ HasKey(resolved[1], "handles")
    /\ entities[1] \in RawRecords

----------------------------------------------------------------------------
(* The names of the identities. *)

\* C28: after any prefix of the input no two identities have names that
\* duplicate each other, and there are as many identities as records that
\* matched no identity created before them.
C28_DistinctIdentities ==
    /\ PairwiseDistinct(resolved)
    /\ Len(resolved) = Cardinality(Creators(Owners(entities)))

\* three records have made two identities, one of them by a merge of a
\* record whose name duplicates the names of both
C28_Witness ==
    /\ Len(entities) = 3 /\ Len(resolved) = 2
    /\ resolved[1]["name"] = NameUpper /\ resolved[2]["name"] = NameAbCde
    /\ entities[3]["name"] = NameCdAb

----------------------------------------------------------------------------
(* The handles of the input. *)

\* the records of the input that have a source and a handle
Keyed == {k \in 1..Len(entities) : HasSourceAndHandle(entities[k])}

\* no two of them have the same source and handle
NaturalKeys ==
    \A j, k \in Keyed :
        (/\ entities[j]["source"] = entities[k]["source"]
         /\ entities[j]["handle"] = entities[k]["handle"]) => j = k

\* the identities whose handles map has the entry of record k
Holders(k) ==
    {i \in 1..Len(resolved) :
        LET handles == Get(resolved[i], "handles", EmptyDict)
        IN  /\ HasKey(handles, entities[k]["source"])
            /\ handles[entities[k]["source"]] = entities[k]["handle"]}

LastOfSource(owners, k) ==
    LET same == {j \in Keyed :
                    /\ owners[j] = owners[k]
                    /\ entities[j]["source"] = entities[k]["source"]}
    IN  CHOOSE j \in same : \A l \in same : l <= j

----------------------------------------------------------------------------
(* The statistics of a merged identity. *)

\* the record that supplies the rating and the source of the identity
\* record c created: the first of the highest rating among those merged
\* into it
Supplier(owners, c) ==
    LET members == MembersOf(owners, c)
        best == {k \in members :
                    \A j \in members :
                        combined_raw[j]["rating"] <= combined_raw[k]["rating"]}
    IN  MinOf(best)

\* the statistics of the identity are those of the record
SameStatistics(id, ent) ==
    /\ FracEq(id["norm"], ent["norm"])
    /\ FracEq(id["geo_norm"], ent["geo_norm"])
    /\ QuotEq(Get(id, "delta_sigma", Zero), Get(ent, "delta_sigma", Zero))
    /\ id["total_in_src"] = ent["total_in_src"]
    /\ id["handle"] = ent["handle"]
    /\ Get(id, "country", None) = Get(ent, "country", None)

\* C30 as the specification states it: when the identities are scored,
\* the rating and the source of every identity are those of one of its
\* merged records, and its norm, geo_norm, delta_sigma, total_in_src,
\* country and handle are those of the same record.
C30_Consistent_Claimed ==
    npc = "zscored" =>
        LET owners == Owners(combined_raw)
        IN  \A c \in Creators(owners) :
                LET id == identities[PositionOf(owners, c)]
                    ent == combined_raw[Supplier(owners, c)]
                IN  /\ id["rating"] = ent["rating"]
                    /\ id["source"] = ent["source"]
                    /\ SameStatistics(id, ent)

====
